---- MODULE Spec2Model ----
(***************************************************************************)
(* Model of the UVE conceptual-graph synchronisation engine:               *)
(*   RDFModel (store queries)  ->  ConceptModel (entity graph extraction)  *)
(*   ->  ThreeView (scene synchronisation, enter/exit navigation).         *)
(* Identifiers are URI strings, modelled as sequences of characters so     *)
(* that the string operations of the code (endsWith, slice, split,         *)
(* includes) are computed rather than assumed.                             *)
(***************************************************************************)
EXTENDS Integers, Sequences, FiniteSets, TLC

VARIABLES
  store,            \* RDFModel: the dataset, as the answers of its queries
  classes,          \* ConceptModel.classes       (Map, insertion ordered)
  relationships,    \* ConceptModel.relationships (Map, insertion ordered)
  interfaces,       \* ConceptModel.interfaces    (Map, insertion ordered)
  spheres,          \* ThreeView.spheres (Map uri -> Sphere handle)
  pipes,            \* ThreeView.pipes   (Map uri -> Pipe handle)
  ports,            \* ThreeView.ports   (Map uri -> Port handle)
  navigationStack,  \* ThreeView.navigationStack
  currentClassUri,  \* ThreeView.currentClassUri (Null at top level)
  camera,           \* ThreeView.camera position and rotation
  passCount,        \* number of updateFromModel passes run so far
  lastOp,           \* the handler that ran last and what it did
  events,           \* events published on the bus by the last handler
  hist,             \* history: state observed just before each open enterClass
  peak,             \* history: deepest nesting since the stack was last empty
  busKind,          \* which EventBus class the bus was constructed from
  subscribers,      \* EventBus.events / EventBus.subscribers, per event name
  returned,         \* the unsubscribe functions subscribe has returned
  busOp,            \* the bus method that ran last and what it did
  registered,       \* history: per event, the callbacks in force, oldest first
  properties,       \* ModelObject.properties of the model objects of a client
  dataset,          \* RDFModelManager.dataset
  classMap,         \* RDFModelManager.classMap (Map, insertion ordered)
  coreOp,           \* the method of the core that ran last and what it did
  fileStorage,      \* mockFs: the Map from path to content
  fsOp,             \* the storage method that ran last and what it did
  written,          \* history: per id, the data written last and not deleted
  storageServices,  \* StorageManager.storageServices (Map name -> service)
  defaultService,   \* StorageManager.defaultService (a name, or none)
  smOp,             \* the StorageManager method that ran last and what it did
  intersectedObject,\* Controls.intersectedObject (the mesh under the pointer)
  selectedObject    \* Controls.selectedObject (the mesh clicked last)

\* the state of the view and of the model behind it
viewVars == << store, classes, relationships, interfaces, spheres, pipes,
               ports, navigationStack, currentClassUri, camera, passCount,
               lastOp, events, hist, peak >>

\* the state of a bus on its own
busVars == << busKind, subscribers, returned, busOp, registered >>

\* the state of the components that are exercised on their own
\* the state of the model objects and of the manager
modelVars == << properties, dataset, classMap, coreOp >>

\* the state of the storage service and of the file system under it
fsVars == << fileStorage, fsOp, written >>

\* the state of the storage manager
smVars == << storageServices, defaultService, smOp >>

\* the state of the pointer controller
ctlVars == << intersectedObject, selectedObject >>

coreVars == << busVars, modelVars, fsVars, smVars, ctlVars >>

vars == << viewVars, coreVars >>

\* null, undefined and the empty string: no URI of the model is empty
Null == << >>

-----------------------------------------------------------------------------
\* The event buses: the singleton of core/eventBus.js, which keeps an array
\* of callbacks under each event name of a plain object, and the EventBus
\* class of the vanilla core, which keeps a Set of callbacks under each event
\* type of a Map

MaxSubscribers == 3

BusKinds == { "eventBus.js", "core.js" }
EventNames == { "event1", "event2" }
Callbacks == { "callback1", "callback2", "badCallback" }

\* what a callback does when the bus calls it: badCallback throws
Throws(callback) == callback = "badCallback"

\* no entry under an event name: undefined in the object, absent in the Map
NoEntry == [ defined |-> FALSE, list |-> << >> ]

\* constructor: this.events = {} / this.subscribers = new Map()
NoSubscribers == [ e \in EventNames |-> NoEntry ]

\* subscribe(event, callback): the array takes the callback again, the Set
\* keeps its first insertion
subscribe(kind, subs, event, callback) ==
  LET list == subs[event].list
      seen == \E i \in DOMAIN list : list[i] = callback
  IN  [ subs EXCEPT ![event] =
          [ defined |-> TRUE,
            list |-> IF kind = "core.js" /\ seen THEN list
                     ELSE Append(list, callback) ] ]

\* the function subscribe returns: eventBus.js filters the array it reads
\* under the event name and throws a TypeError when there is none; the core
\* deletes from the Set, and the Set from the Map once it is empty
unsubscribe(kind, subs, event, callback) ==
  LET list == subs[event].list
      rest == SelectSeq(list, LAMBDA cb : cb # callback)
  IN  IF ~subs[event].defined
      THEN [ subs |-> subs, threw |-> kind = "eventBus.js" ]
      ELSE [ subs |-> [ subs EXCEPT ![event] =
                          IF kind = "core.js" /\ rest = << >> THEN NoEntry
                          ELSE [ defined |-> TRUE, list |-> rest ] ],
             threw |-> FALSE ]

\* the forEach of publish over the callbacks from the i-th on: a callback
\* that throws is caught and logged, and the loop goes on
RECURSIVE forEachCallback(_, _)
forEachCallback(list, i) ==
  IF i > Len(list) THEN [ called |-> << >>, threw |-> FALSE ]
  ELSE LET rest == forEachCallback(list, i + 1)
       IN  [ called |-> << list[i] >> \o rest.called, threw |-> rest.threw ]

\* a forEach without the try and catch: the first callback that throws
\* ends the loop and the exception leaves publish
RECURSIVE forEachUncaught(_, _)
forEachUncaught(list, i) ==
  IF i > Len(list) THEN [ called |-> << >>, threw |-> FALSE ]
  ELSE IF Throws(list[i]) THEN [ called |-> << list[i] >>, threw |-> TRUE ]
  ELSE LET rest == forEachUncaught(list, i + 1)
       IN  [ called |-> << list[i] >> \o rest.called, threw |-> rest.threw ]

\* variant: publish without the try and catch around each callback
publish_uncaught(subs, event) ==
  IF ~subs[event].defined THEN [ called |-> << >>, threw |-> FALSE ]
  ELSE forEachUncaught(subs[event].list, 1)

\* publish: nothing happens without an entry under the event name
publish(subs, event) ==
  IF ~subs[event].defined THEN [ called |-> << >>, threw |-> FALSE ]
  ELSE forEachCallback(subs[event].list, 1)

\* variant: clear(event) that drops the entries of every event name
clearEvent_dropsAll(subs, event) == [ e \in EventNames |-> NoEntry ]

\* clear(event) of eventBus.js with an event name
clearEvent(subs, event) == [ subs EXCEPT ![event] = NoEntry ]

\* clear() of eventBus.js without an argument
clearAll(subs) == NoSubscribers

\* what the last bus method was and did
BusOp(op, event, callback, called, threw) ==
  [ op |-> op, event |-> event, callback |-> callback, called |-> called,
    threw |-> threw ]

\* a bus as constructed, and nothing subscribed yet
InitBusOf(kind) ==
  /\ busKind = kind
  /\ subscribers = NoSubscribers
  /\ returned = {}
  /\ busOp = BusOp("init", "", "", << >>, FALSE)
  /\ registered = [ e \in EventNames |-> << >> ]

-----------------------------------------------------------------------------
(* Bounds of the model *)

MaxDepth == 2
MaxPasses == 5
MaxInstances == 5
MaxSubclasses == 4
MaxRadius == 16

-----------------------------------------------------------------------------
(* URI strings *)

uA   == << "n", "/", "A" >>
uB   == << "n", "/", "B" >>
uAB  == << "n", "/", "A", "B" >>
uC   == << "n", "#", "C" >>
uASl == << "n", "/", "A", "/" >>
uX   == << "n", "/", "X" >>
uP   == << "n", "/", "p" >>
uQ   == << "n", "/", "q" >>
uI   == << "n", "/", "i" >>
uJ   == << "n", "/", "j" >>

\* the URI of the k-th instance resource
Digits == << "1", "2", "3", "4", "5", "6", "7", "8", "9" >>
uInst(k) == << "n", "/", "m", Digits[k] >>

\* String.prototype.endsWith(ch) for a single character
EndsWith(u, ch) == Len(u) > 0 /\ u[Len(u)] = ch

\* String.prototype.slice(0, -1)
SliceOffLast(u) == SubSeq(u, 1, Len(u) - 1)

\* String.prototype.includes(sub)
Includes(s, sub) ==
  \E i \in 0..(Len(s) - Len(sub)) : SubSeq(s, i + 1, i + Len(sub)) = sub

\* s.split(sep).pop(): the part of s after the last occurrence of sep
SplitPop(s, sep) ==
  LET idx == { i \in 1..Len(s) : s[i] = sep }
  IN  IF idx = {} THEN s
      ELSE LET last == CHOOSE i \in idx : \A j \in idx : j <= i
           IN  SubSeq(s, last + 1, Len(s))

-----------------------------------------------------------------------------
(* JavaScript Map, insertion ordered: a sequence of records with a uri key *)

Keys(m) == { m[i].uri : i \in DOMAIN m }
Has(m, k) == \E i \in DOMAIN m : m[i].uri = k
Get(m, k) == m[CHOOSE i \in DOMAIN m : m[i].uri = k]
SeqToSet(s) == { s[i] : i \in DOMAIN s }

-----------------------------------------------------------------------------
(* RDFModel: the store queries.  A store is a record                       *)
(*   classNodes : the resources typed rdfs:Class, in dataset order         *)
(*   subClassOf : the rdfs:subClassOf edges << sub, super >>, in order     *)
(*   relDefs    : the rdf:Property resources with their domains and ranges *)
(*   ifaceDefs  : the uve:Interface resources with their owner classes     *)

getClasses(s) == s.classNodes

\* a term object of the store: its value, and which object it is.  Each
\* quad carries a subject object of its own, unless the edge names one
\* (a third component) that it shares with other edges
NamedNode(value, object) == [ value |-> value, object |-> object ]

subjectOf(edges, i) ==
  NamedNode(edges[i][1], IF Len(edges[i]) = 3 THEN edges[i][3] ELSE i)

\* grapoi.node(classUri).in(subClassOf): one pointer for each matching edge
RECURSIVE getSubclassesFrom(_, _, _)
getSubclassesFrom(edges, classUri, i) ==
  IF i > Len(edges) THEN << >>
  ELSE (IF edges[i][2] = classUri THEN << subjectOf(edges, i) >> ELSE << >>)
       \o getSubclassesFrom(edges, classUri, i + 1)

getSubclasses(s, classUri) == getSubclassesFrom(s.subClassOf, classUri, 1)

\* variant: a property without a domain or without a range is returned
\* with that end undefined
pairsOfProperty_keepsDangling(def) ==
  LET ds == IF Len(def.domains) = 0 THEN << Null >> ELSE def.domains
      rs == IF Len(def.ranges) = 0 THEN << Null >> ELSE def.ranges
  IN  [ k \in 1..(Len(ds) * Len(rs)) |->
          [ property |-> def.property,
            domain   |-> ds[((k - 1) \div Len(rs)) + 1],
            range    |-> rs[((k - 1) % Len(rs)) + 1] ] ]

\* the inner loops of getRelationships: one record per (domain, range) pair
pairsOfProperty(def) ==
  LET d == Len(def.domains)
      r == Len(def.ranges)
  IN  [ k \in 1..(d * r) |->
          [ property |-> def.property,
            domain   |-> def.domains[((k - 1) \div r) + 1],
            range    |-> def.ranges[((k - 1) % r) + 1] ] ]

RECURSIVE getRelationshipsFrom(_, _)
getRelationshipsFrom(defs, i) ==
  IF i > Len(defs) THEN << >>
  ELSE pairsOfProperty(defs[i]) \o getRelationshipsFrom(defs, i + 1)

getRelationships(s) == getRelationshipsFrom(s.relDefs, 1)

\* RDFModel defines no getClassInstances: the call in _loadClassInstances
\* raises a TypeError, which the try/catch around it swallows
getClassInstancesThrows == TRUE

-----------------------------------------------------------------------------
(* ConceptModel: extraction of the entity graph *)

\* a position { x: r sin(a), y: 0, z: r cos(a) } is kept as its radius r
\* and its angle a = index * (2 pi / count), the way _assignPositions
\* computes it; the origin has radius 0
Origin == [ radius |-> 0, index |-> 0, count |-> 1 ]

\* two positions are the same point of the plane
SamePoint(p, q) ==
  /\ p.radius = q.radius
  /\ p.radius # 0 => (p.index % p.count) * q.count
                       = (q.index % q.count) * p.count

\* _radius is << >> while undefined and << v >> once it is the number v;
\* variant: a new entity takes the flag of the entity it replaces, here set
ClassEntity_keepsSelection(uri) ==
  [ uri |-> uri, subclasses |-> << >>, interfaces |-> << >>,
    isSelected |-> TRUE, position |-> Origin, _radius |-> << >> ]

\* radii are counted in halves of a unit, so that 0.5 is the integer 1
ClassEntity(uri) ==
  [ uri |-> uri, subclasses |-> << >>, interfaces |-> << >>,
    isSelected |-> FALSE, position |-> Origin, _radius |-> << >> ]

\* get radius(): the test if (this._radius) fails for undefined and for 0
radius(entity) ==
  IF entity._radius # << >> /\ entity._radius[1] # 0
  THEN entity._radius[1]
  ELSE 10 + (Len(entity.subclasses) * 1)

\* set radius(value)
setRadius(entity, value) == [ entity EXCEPT !._radius = << value >> ]

RelationshipEntity(uri, source, target) ==
  [ uri |-> uri, sourceClassUri |-> source, targetClassUri |-> target,
    isSelected |-> FALSE ]

InterfaceEntity(uri, classUri) ==
  [ uri |-> uri, classUri |-> classUri, isSelected |-> FALSE ]

\* a malformed node (Null: no term) raises inside the try and is skipped
_processClassNode(cls, node) ==
  IF node = Null THEN cls
  ELSE IF Has(cls, node) THEN cls ELSE Append(cls, ClassEntity(node))

RECURSIVE _loadClassDefinitionsFrom(_, _, _)
_loadClassDefinitionsFrom(cls, nodes, i) ==
  IF i > Len(nodes) THEN cls
  ELSE _loadClassDefinitionsFrom(_processClassNode(cls, nodes[i]), nodes, i + 1)

_loadClassDefinitions(s) == _loadClassDefinitionsFrom(<< >>, getClasses(s), 1)

\* the nodes the call rdfModel.getClassInstances(classUri) asks for: the
\* resources typed by classUri, in the order of the store's rdf:type edges
RECURSIVE getClassInstancesFrom(_, _, _)
getClassInstancesFrom(edges, classUri, i) ==
  IF i > Len(edges) THEN << >>
  ELSE (IF edges[i][2] = classUri THEN << edges[i][1] >> ELSE << >>)
       \o getClassInstancesFrom(edges, classUri, i + 1)

getClassInstances(s, classUri) == getClassInstancesFrom(s.instances, classUri, 1)

_processInstanceNode(cls, node) ==
  IF node = Null THEN cls
  ELSE IF Has(cls, node) THEN cls ELSE Append(cls, ClassEntity(node))

RECURSIVE _processInstanceNodesFrom(_, _, _)
_processInstanceNodesFrom(cls, nodes, i) ==
  IF i > Len(nodes) THEN cls
  ELSE _processInstanceNodesFrom(_processInstanceNode(cls, nodes[i]),
                                 nodes, i + 1)

\* the loop over this.classes.values(): the map is live, an entity added
\* by the loop is visited by it; a call that raises is caught per class
RECURSIVE _loadClassInstancesFrom(_, _, _)
_loadClassInstancesFrom(cls, s, i) ==
  IF i > Len(cls) THEN cls
  ELSE IF getClassInstancesThrows THEN _loadClassInstancesFrom(cls, s, i + 1)
  ELSE _loadClassInstancesFrom(
         _processInstanceNodesFrom(cls, getClassInstances(s, cls[i].uri), 1),
         s, i + 1)

_loadClassInstances(cls, s) == _loadClassInstancesFrom(cls, s, 1)

\* Array.includes compares what it is given: strings by their characters,
\* term objects by which object they are
addSubclass(entity, subclassUri) ==
  IF subclassUri \in SeqToSet(entity.subclasses) THEN entity
  ELSE [ entity EXCEPT !.subclasses = Append(@, subclassUri) ]

\* the term itself is handed to addSubclass, not its value
_processSubclass(cls, entity, subclassUri) ==
  IF Has(cls, subclassUri.value) THEN addSubclass(entity, subclassUri)
  ELSE entity

\* _processSubclass has no try of its own: a malformed subclass node raises
\* out of the forEach, into the catch around the whole class
RECURSIVE _processSubclassesFrom(_, _, _, _)
_processSubclassesFrom(cls, entity, subs, i) ==
  IF i > Len(subs) THEN entity
  ELSE IF subs[i].value = Null THEN entity
  ELSE _processSubclassesFrom(cls, _processSubclass(cls, entity, subs[i]),
                              subs, i + 1)

_loadSubclassRelationships(cls, s) ==
  [ i \in DOMAIN cls |->
      _processSubclassesFrom(cls, cls[i], getSubclasses(s, cls[i].uri), 1) ]

_loadClasses(s) ==
  _loadSubclassRelationships(
    _loadClassInstances(_loadClassDefinitions(s), s), s)

_processRelationship(rels, rel) ==
  IF rel.property = Null THEN rels
  ELSE IF Has(rels, rel.property) THEN rels
  ELSE Append(rels, RelationshipEntity(rel.property, rel.domain, rel.range))

RECURSIVE _loadRelationshipsFrom(_, _, _)
_loadRelationshipsFrom(rels, recs, i) ==
  IF i > Len(recs) THEN rels
  ELSE _loadRelationshipsFrom(_processRelationship(rels, recs[i]), recs, i + 1)

_loadRelationships(s) == _loadRelationshipsFrom(<< >>, getRelationships(s), 1)

\* variant: the entity is stored without the test for a known owner class
_processInterface_unknownOwner(g, def) ==
  IF def.uri = Null THEN g
  ELSE IF Has(g.interfaces, def.uri) THEN g
  ELSE IF Len(def.owners) # 1 THEN g
  ELSE [ classes |->
           [ i \in DOMAIN g.classes |->
               IF g.classes[i].uri = def.owners[1]
               THEN [ g.classes[i] EXCEPT !.interfaces = Append(@, def.uri) ]
               ELSE g.classes[i] ],
         interfaces |-> Append(g.interfaces,
                               InterfaceEntity(def.uri, def.owners[1])) ]

\* _processInterface on the graph g = [classes, interfaces]: the owner is
\* classNodes.term, defined only when exactly one owner edge exists
_processInterface(g, def) ==
  IF def.uri = Null THEN g
  ELSE IF Has(g.interfaces, def.uri) THEN g
  ELSE IF Len(def.owners) # 1 THEN g
  ELSE IF ~Has(g.classes, def.owners[1]) THEN g
  ELSE [ classes |->
           [ i \in DOMAIN g.classes |->
               IF g.classes[i].uri = def.owners[1]
                  /\ def.uri \notin SeqToSet(g.classes[i].interfaces)
               THEN [ g.classes[i] EXCEPT !.interfaces = Append(@, def.uri) ]
               ELSE g.classes[i] ],
         interfaces |-> Append(g.interfaces,
                               InterfaceEntity(def.uri, def.owners[1])) ]

RECURSIVE _loadInterfacesFrom(_, _, _)
_loadInterfacesFrom(g, defs, i) ==
  IF i > Len(defs) THEN g
  ELSE _loadInterfacesFrom(_processInterface(g, defs[i]), defs, i + 1)

_loadInterfaces(cls, s) ==
  _loadInterfacesFrom([ classes |-> cls, interfaces |-> << >> ], s.ifaceDefs, 1)

\* the circle layout over all the classes of the map
_assignPositions(cls) ==
  LET classCount == Len(cls)
      layoutRadius == IF classCount * 5 > 30 THEN classCount * 5 ELSE 30
  IN  IF classCount = 0 THEN cls
      ELSE IF classCount = 1
      THEN << [ cls[1] EXCEPT !.position = Origin ] >>
      ELSE [ i \in DOMAIN cls |->
               [ cls[i] EXCEPT !.position =
                   [ radius |-> layoutRadius, index |-> i - 1,
                     count |-> classCount ] ] ]

\* the three maps after updateFromRDF has cleared and rebuilt them
extractGraph(s) ==
  LET g == _loadInterfaces(_loadClasses(s), s)
  IN  [ classes       |-> _assignPositions(g.classes),
        relationships |-> _loadRelationships(s),
        interfaces    |-> g.interfaces ]

\* the call this.rdfModel.getRelationships() stands outside every try
getRelationshipsThrows(s) == s.relationshipQueryThrows

\* updateFromRDF: the maps it leaves, and whether it ran to its end (the
\* publication of 'concept-model-changed') or was left by an exception
updateFromRDF(s) ==
  IF getRelationshipsThrows(s)
  THEN [ classes |-> _loadClasses(s), relationships |-> << >>,
         interfaces |-> << >>, completed |-> FALSE ]
  ELSE LET g == extractGraph(s)
       IN  [ classes |-> g.classes, relationships |-> g.relationships,
             interfaces |-> g.interfaces, completed |-> TRUE ]

\* the entity found is denoted by its key, Null when there is none
getClass(cls, uri) == IF Has(cls, uri) THEN uri ELSE Null

-----------------------------------------------------------------------------
(* ThreeView: the scene synchronisation pass.  A handle is a record with   *)
(* the key it is stored under and the pass that created it (handles made   *)
(* by different passes, or under different keys, are different objects).   *)

Sphere(uri, pass) == [ uri |-> uri, id |-> pass ]
Pipe(uri, pass, sourceSphere, targetSphere) ==
  [ uri |-> uri, id |-> pass, source |-> sourceSphere, target |-> targetSphere ]
Port(uri, pass, parentSphere) ==
  [ uri |-> uri, id |-> pass, parent |-> parentSphere ]

\* a scene is the three handle maps with the create and dispose calls made:
\* their numbers, and in calls the order in which they were made
clearVisualization(sc) ==
  [ spheres |-> << >>, pipes |-> << >>, ports |-> << >>,
    created |-> sc.created,
    disposed |-> sc.disposed + Len(sc.spheres) + Len(sc.pipes) + Len(sc.ports),
    calls |-> sc.calls
                \o [ k \in 1..(Len(sc.spheres) + Len(sc.pipes) + Len(sc.ports))
                       |-> "dispose" ] ]

renderClass(sc, uri, pass) ==
  IF Has(sc.spheres, uri) THEN sc
  ELSE [ sc EXCEPT !.spheres = Append(@, Sphere(uri, pass)),
                   !.created = @ + 1,
                   !.calls = Append(@, "create") ]

RECURSIVE renderClassesFrom(_, _, _, _)
renderClassesFrom(sc, cls, pass, i) ==
  IF i > Len(cls) THEN sc
  ELSE renderClassesFrom(renderClass(sc, cls[i].uri, pass), cls, pass, i + 1)

\* variant: the loop starts one entry late
renderClasses_skipsFirst(sc, cls, pass) == renderClassesFrom(sc, cls, pass, 2)

renderClasses(sc, cls, pass) == renderClassesFrom(sc, cls, pass, 1)

\* the local name: uri.split('/').pop().split('#').pop()
localNameOf(uri) == SplitPop(SplitPop(uri, "/"), "#")

altUriOf(uri) == IF EndsWith(uri, "/") THEN SliceOffLast(uri) ELSE uri \o << "/" >>

\* variant: the local name is looked for first
findSphereByUri_localNameFirst(sph, uri) ==
  LET hits == { i \in DOMAIN sph : Includes(sph[i].uri, localNameOf(uri)) }
  IN  IF hits # {} THEN sph[CHOOSE i \in hits : \A j \in hits : i <= j].uri
      ELSE IF Has(sph, uri) THEN uri
      ELSE IF Has(sph, altUriOf(uri)) THEN altUriOf(uri)
      ELSE Null

\* the key of the sphere findSphereByUri returns, Null when it returns null
findSphereByUri(sph, uri) ==
  IF Has(sph, uri) THEN uri
  ELSE IF Has(sph, altUriOf(uri)) THEN altUriOf(uri)
  ELSE LET hits == { i \in DOMAIN sph : Includes(sph[i].uri, localNameOf(uri)) }
       IN  IF hits = {} THEN Null
           ELSE sph[CHOOSE i \in hits : \A j \in hits : i <= j].uri

renderRelationship(sc, rel, pass) ==
  IF Has(sc.pipes, rel.uri) THEN sc
  ELSE LET sourceSphere == findSphereByUri(sc.spheres, rel.sourceClassUri)
           targetSphere == findSphereByUri(sc.spheres, rel.targetClassUri)
       IN  IF sourceSphere = Null \/ targetSphere = Null THEN sc
           ELSE [ sc EXCEPT
                    !.pipes = Append(@, Pipe(rel.uri, pass,
                                             Get(sc.spheres, sourceSphere),
                                             Get(sc.spheres, targetSphere))),
                    !.created = @ + 1,
                   !.calls = Append(@, "create") ]

RECURSIVE renderRelationshipsFrom(_, _, _, _)
renderRelationshipsFrom(sc, rels, pass, i) ==
  IF i > Len(rels) THEN sc
  ELSE renderRelationshipsFrom(renderRelationship(sc, rels[i], pass),
                               rels, pass, i + 1)

renderRelationships(sc, rels, pass) == renderRelationshipsFrom(sc, rels, pass, 1)

renderInterface(sc, intf, pass) ==
  IF Has(sc.ports, intf.uri) THEN sc
  ELSE IF ~Has(sc.spheres, intf.classUri) THEN sc
  ELSE [ sc EXCEPT
           !.ports = Append(@, Port(intf.uri, pass,
                                    Get(sc.spheres, intf.classUri))),
           !.created = @ + 1,
                   !.calls = Append(@, "create") ]

RECURSIVE renderInterfacesFrom(_, _, _, _)
renderInterfacesFrom(sc, intfs, pass, i) ==
  IF i > Len(intfs) THEN sc
  ELSE renderInterfacesFrom(renderInterface(sc, intfs[i], pass),
                            intfs, pass, i + 1)

\* variant: the first interface of the map is left out of every pass
renderInterfaces_skipsFirst(sc, intfs, pass) ==
  renderInterfacesFrom(sc, intfs, pass, 2)

renderInterfaces(sc, intfs, pass) == renderInterfacesFrom(sc, intfs, pass, 1)

\* renderClassInternals, first loop: the subclasses of the entered class
RECURSIVE renderSubclassesFrom(_, _, _, _, _)
renderSubclassesFrom(sc, cls, subs, pass, i) ==
  IF i > Len(subs) THEN sc
  ELSE renderSubclassesFrom(
         IF getClass(cls, subs[i].value) # Null
         THEN renderClass(sc, subs[i].value, pass) ELSE sc,
         cls, subs, pass, i + 1)

\* variant: the second loop without its filter, as renderRelationships
renderInnerRelationships_unfiltered(sc, rels, pass, i) ==
  renderRelationshipsFrom(sc, rels, pass, i)

\* second loop: relationships whose endpoints are keys of the sphere map
RECURSIVE renderInnerRelationshipsFrom(_, _, _, _)
renderInnerRelationshipsFrom(sc, rels, pass, i) ==
  IF i > Len(rels) THEN sc
  ELSE renderInnerRelationshipsFrom(
         IF Has(sc.spheres, rels[i].sourceClassUri)
            /\ Has(sc.spheres, rels[i].targetClassUri)
         THEN renderRelationship(sc, rels[i], pass) ELSE sc,
         rels, pass, i + 1)

\* third loop: interfaces whose owner is a key of the sphere map
RECURSIVE renderInnerInterfacesFrom(_, _, _, _)
renderInnerInterfacesFrom(sc, intfs, pass, i) ==
  IF i > Len(intfs) THEN sc
  ELSE renderInnerInterfacesFrom(
         IF Has(sc.spheres, intfs[i].classUri)
         THEN renderInterface(sc, intfs[i], pass) ELSE sc,
         intfs, pass, i + 1)

\* variant: the entered class is rendered along with its subclasses
renderClassInternals_withSelf(sc, g, classUriString, pass) ==
  IF getClass(g.classes, classUriString) = Null THEN sc
  ELSE renderInnerInterfacesFrom(
         renderInnerRelationshipsFrom(
           renderSubclassesFrom(renderClass(sc, classUriString, pass),
                                g.classes,
                                Get(g.classes, classUriString).subclasses,
                                pass, 1),
           g.relationships, pass, 1),
         g.interfaces, pass, 1)

renderClassInternals(sc, g, classUriString, pass) ==
  IF getClass(g.classes, classUriString) = Null THEN sc
  ELSE renderInnerInterfacesFrom(
         renderInnerRelationshipsFrom(
           renderSubclassesFrom(sc, g.classes,
                                Get(g.classes, classUriString).subclasses,
                                pass, 1),
           g.relationships, pass, 1),
         g.interfaces, pass, 1)

\* variant: the new handles are made first and the handles of the last
\* pass are disposed afterwards
updateFromModel_clearsLate(sc0, g, scopeUri, pass) ==
  LET emptied == [ sc0 EXCEPT !.spheres = << >>, !.pipes = << >>,
                              !.ports = << >> ]
      made == IF scopeUri # Null
              THEN renderClassInternals(emptied, g, scopeUri, pass)
              ELSE renderInterfaces(
                     renderRelationships(
                       renderClasses(emptied, g.classes, pass),
                       g.relationships, pass),
                     g.interfaces, pass)
      stale == Len(sc0.spheres) + Len(sc0.pipes) + Len(sc0.ports)
  IN  [ made EXCEPT !.disposed = @ + stale,
                    !.calls = @ \o [ k \in 1..stale |-> "dispose" ] ]

\* updateFromModel on the handle maps sc0, for graph g and scope scopeUri
updateFromModel(sc0, g, scopeUri, pass) ==
  LET cleared == clearVisualization(sc0)
  IN  IF scopeUri # Null
      THEN renderClassInternals(cleared, g, scopeUri, pass)
      ELSE renderInterfaces(
             renderRelationships(
               renderClasses(cleared, g.classes, pass),
               g.relationships, pass),
             g.interfaces, pass)

\* both relationship loops read sourceClassUri.value and targetClassUri.value
\* outside any try: the index of the first relationship of the pass that
\* has an undefined end, 0 when the pass meets none
firstThrowingRelationship(g, scopeUri) ==
  LET bad == { i \in DOMAIN g.relationships :
                 \/ g.relationships[i].sourceClassUri = Null
                 \/ g.relationships[i].targetClassUri = Null }
  IN  IF bad = {} THEN 0
      ELSE IF scopeUri # Null /\ getClass(g.classes, scopeUri) = Null THEN 0
      ELSE CHOOSE i \in bad : \A j \in bad : i <= j

\* updateFromModel with its exception: the handle maps it leaves, and
\* whether a TypeError left it before the pass was complete
updateFromModelOutcome(sc0, g, scopeUri, pass) ==
  LET k == firstThrowingRelationship(g, scopeUri)
  IN  IF k = 0
      THEN [ scene |-> updateFromModel(sc0, g, scopeUri, pass),
             threw |-> FALSE ]
      ELSE [ scene |-> updateFromModel(
                         sc0,
                         [ classes |-> g.classes,
                           relationships |-> SubSeq(g.relationships, 1, k - 1),
                           interfaces |-> << >> ],
                         scopeUri, pass),
             threw |-> TRUE ]

-----------------------------------------------------------------------------
(* The stores the dataset is switched between *)

EmptyStore ==
  [ classNodes |-> << >>, subClassOf |-> << >>, relDefs |-> << >>,
    ifaceDefs |-> << >>, instances |-> << >>,
    relationshipQueryThrows |-> FALSE ]

\* a hierarchy: B, AB under A; C under B; A under itself; X is no class
HierarchyStore ==
  [ classNodes |-> << uA, uB, uAB, uC >>,
    subClassOf |-> << << uB, uA >>, << uAB, uA >>, << uC, uB >>,
                      << uX, uA >>, << uA, uC >> >>,
    relDefs    |-> << [ property |-> uP, domains |-> << uB >>,
                        ranges |-> << uAB >> ],
                      [ property |-> uQ, domains |-> << uASl >>,
                        ranges |-> << uB >> ] >>,
    ifaceDefs  |-> << [ uri |-> uI, owners |-> << uB >> ],
                      [ uri |-> uJ, owners |-> << uA >> ] >>,
    instances  |-> << >>, relationshipQueryThrows |-> FALSE ]

\* endpoints that match a class only by local name, or not at all
FuzzyStore ==
  [ classNodes |-> << uAB, uB >>,
    subClassOf |-> << << uAB, uB >>, << uB, uB >> >>,
    relDefs    |-> << [ property |-> uP, domains |-> << uA >>,
                        ranges |-> << uB >> ],
                      [ property |-> uQ, domains |-> << uX >>,
                        ranges |-> << uB >> ] >>,
    ifaceDefs  |-> << [ uri |-> uI, owners |-> << uX >> ] >>,
    instances  |-> << >>, relationshipQueryThrows |-> FALSE ]

\* a property with two domains and two ranges
MultiStore ==
  [ classNodes |-> << uA, uB >>,
    subClassOf |-> << << uB, uA >> >>,
    relDefs    |-> << [ property |-> uP, domains |-> << uA, uB >>,
                        ranges |-> << uB, uA >> ] >>,
    ifaceDefs  |-> << [ uri |-> uI, owners |-> << uA >> ] >>,
    instances  |-> << >>, relationshipQueryThrows |-> FALSE ]

\* one class with n instances, and one property from the class to itself
InstanceStore(n) ==
  [ classNodes |-> << uA >>,
    subClassOf |-> << >>,
    relDefs    |-> << [ property |-> uP, domains |-> << uA >>,
                        ranges |-> << uA >> ] >>,
    ifaceDefs  |-> << >>,
    instances  |-> [ k \in 1..n |-> << uInst(k), uA >> ],
    relationshipQueryThrows |-> FALSE ]

\* n/B is a class and an instance of n/A; n/m1 is an instance of both
DualStore ==
  [ classNodes |-> << uA, uB >>,
    subClassOf |-> << >>,
    relDefs    |-> << >>,
    ifaceDefs  |-> << >>,
    instances  |-> << << uB, uA >>, << uInst(1), uA >>, << uInst(1), uB >> >>,
    relationshipQueryThrows |-> FALSE ]

\* the hierarchy, with a relationship query that raises
ThrowingStore == [ HierarchyStore EXCEPT !.relationshipQueryThrows = TRUE ]

\* one malformed node of each kind, each ahead of well-formed ones
MalformedStore ==
  [ classNodes |-> << uA, Null, uB, uC >>,
    subClassOf |-> << << Null, uA >>, << uB, uA >>, << uC, uB >> >>,
    relDefs    |-> << [ property |-> Null, domains |-> << uA >>,
                        ranges |-> << uB >> ],
                      [ property |-> uP, domains |-> << uA >>,
                        ranges |-> << uB >> ] >>,
    ifaceDefs  |-> << [ uri |-> Null, owners |-> << uA >> ],
                      [ uri |-> uI, owners |-> << uA >> ] >>,
    instances  |-> << >>, relationshipQueryThrows |-> FALSE ]

\* properties without a range, without a domain, and with both
DanglingStore ==
  [ classNodes |-> << uA, uB >>,
    subClassOf |-> << << uB, uA >> >>,
    relDefs    |-> << [ property |-> uQ, domains |-> << uA >>,
                        ranges |-> << >> ],
                      [ property |-> uJ, domains |-> << >>,
                        ranges |-> << uB >> ],
                      [ property |-> uP, domains |-> << uB >>,
                        ranges |-> << uB >> ] >>,
    ifaceDefs  |-> << >>,
    instances  |-> << >>, relationshipQueryThrows |-> FALSE ]

\* a store that answers the subclass query with the same subclass more than
\* once: B through two quads, each with a subject object of its own, and AB
\* through two edges that share one subject object.  Its interface query
\* answers i twice, j without an owner and q with an owner that is no class
RepeatedStore ==
  [ classNodes |-> << uA, uB, uAB >>,
    subClassOf |-> << << uB, uA >>, << uB, uA >>,
                      << uAB, uA, 0 >>, << uAB, uA, 0 >> >>,
    relDefs    |-> << >>,
    ifaceDefs  |-> << [ uri |-> uI, owners |-> << uA >> ],
                      [ uri |-> uI, owners |-> << uA >> ],
                      [ uri |-> uJ, owners |-> << >> ],
                      [ uri |-> uQ, owners |-> << uX >> ] >>,
    instances  |-> << >>, relationshipQueryThrows |-> FALSE ]

Stores == { EmptyStore, HierarchyStore, FuzzyStore, MultiStore }

EnterIds == { uA, uB, uAB, uC, uX }

DefaultPose == [ position |-> << 0, 0, 15 >>, rotation |-> << 0, 0, 0 >> ]
CameraPoses ==
  { DefaultPose,
    [ position |-> << 3, 0, 15 >>, rotation |-> << 0, 1, 0 >> ],
    [ position |-> << 0, 2, 9 >>,  rotation |-> << 0, 0, 0 >> ] }

-----------------------------------------------------------------------------
(* The state machine *)

NoScene == [ spheres |-> << >>, pipes |-> << >>, ports |-> << >>,
             created |-> 0, disposed |-> 0, calls |-> << >> ]

CurrentScene == [ spheres |-> spheres, pipes |-> pipes, ports |-> ports,
                  created |-> 0, disposed |-> 0, calls |-> << >> ]

CurrentGraph == [ classes |-> classes, relationships |-> relationships,
                  interfaces |-> interfaces ]

\* inFlight: the most updateFromRDF calls on the stack at once; escaped:
\* an exception left the handler; kind, refreshed: the type of a selection
\* and the handles whose update() it called; value: the radius assigned
Op(name, arg, ok, passes, sc) ==
  [ op |-> name, arg |-> arg, ok |-> ok, passes |-> passes,
    created |-> sc.created, disposed |-> sc.disposed, calls |-> sc.calls,
    inFlight |-> IF name = "rdfModelChanged" THEN 1 ELSE 0,
    escaped |-> FALSE, kind |-> "", refreshed |-> {}, value |-> 0 ]

Event(name, classEntity) == [ name |-> name, classEntity |-> classEntity ]

-----------------------------------------------------------------------------
\* The vanilla core: ModelObject and RDFModelManager, which publish UVEEvents
\* on a bus of the EventBus class of the core

\* new UVEEvent(type, data)
UVEEvent(type, data) == [ type |-> type, data |-> data ]

\* the model objects a client holds, the properties it sets and the values;
\* a value is never the empty sequence, which stands for null
ModelIds == { "model1", "model2" }
PropertyKeys == { "sourceProperty", "targetProperty" }
PropertyValues == { << "value1" >>, << "value2" >> }

\* constructor of ModelObject: this.properties = new Map()
NoProperties == << >>

\* Map.set on a Map kept as the sequence of its entries: the value of a key
\* that is there is replaced in place, a new key goes to the end
MapSet(m, key, value) ==
  IF \E i \in DOMAIN m : m[i].key = key
  THEN [ i \in DOMAIN m |->
           IF m[i].key = key THEN [ key |-> key, value |-> value ] ELSE m[i] ]
  ELSE Append(m, [ key |-> key, value |-> value ])

\* get(key) with its default value null
get(props, key) ==
  IF \E i \in DOMAIN props : props[i].key = key
  THEN (CHOOSE e \in { props[i] : i \in DOMAIN props } : e.key = key).value
  ELSE Null

\* the subscribers of 'model:property:change' a client may have: one that
\* answers a change of sourceProperty of model1 by setting targetProperty of
\* model2, one that only counts, and one that throws
ModelCallbacks == { "reactor", "callback", "badCallback" }

Reacts(callback, event) ==
  /\ callback = "reactor"
  /\ event.data.modelId = "model1"
  /\ event.data.property = "sourceProperty"

\* the event of ModelObject.set
PropertyChange(modelId, key, oldValue, newValue) ==
  UVEEvent("model:property:change",
           [ modelId |-> modelId, property |-> key, oldValue |-> oldValue,
             newValue |-> newValue ])

\* the running state of a call: the properties of the model objects, the
\* events handed to publish so far and the calls of callbacks so far
RECURSIVE set(_, _, _, _, _)
RECURSIVE deliver(_, _, _, _)

\* the forEach of publish from the i-th subscriber on; a subscriber that
\* reacts calls set before the next subscriber is called
deliver(st, subs, event, i) ==
  LET list == subs[event.type].list
  IN  IF i > Len(list) THEN st
      ELSE LET got   == [ st EXCEPT !.delivered =
                            Append(@, [ callback |-> list[i],
                                        event |-> event ]) ]
               after == IF Reacts(list[i], event)
                        THEN set(got, subs, "model2", "targetProperty",
                                 event.data.newValue)
                        ELSE got
           IN  deliver(after, subs, event, i + 1)

\* publish(event) of the core's bus, with what the callbacks do
publishEvent(st, subs, event) ==
  LET handed == [ st EXCEPT !.published = Append(@, event) ]
  IN  IF event.type \in DOMAIN subs /\ subs[event.type].defined
      THEN deliver(handed, subs, event, 1)
      ELSE handed

\* variant: set that reads the old value after it has stored the new one
set_readsAfterStore(st, subs, modelId, key, value) ==
  LET stored == [ st EXCEPT !.properties[modelId] = MapSet(@, key, value) ]
  IN  publishEvent(stored, subs,
        PropertyChange(modelId, key, get(stored.properties[modelId], key),
                       value))

\* ModelObject.set(key, value) on the object with the given id
set(st, subs, modelId, key, value) ==
  LET oldValue == get(st.properties[modelId], key)
      stored   == [ st EXCEPT !.properties[modelId] = MapSet(@, key, value) ]
  IN  publishEvent(stored, subs,
        PropertyChange(modelId, key, oldValue, value))

\* the datasets fromURL may resolve to, as the answers the manager reads from
\* them: the class terms with their rdfs:label values and rdfs:subClassOf
\* objects
ClassTerm(value, labels, parents) ==
  [ value |-> value, labels |-> labels, parents |-> parents ]

EmptyDataset == [ size |-> 0, terms |-> << >> ]
LabelledDataset ==
  [ size |-> 2, terms |-> << ClassTerm(uA, << << "A", "l" >> >>, << >>) >> ]
HierarchyDataset ==
  [ size |-> 3, terms |-> << ClassTerm(uA, << >>, << >>),
                             ClassTerm(uB, << >>, << uA >>) >> ]
Datasets == { EmptyDataset, LabelledDataset, HierarchyDataset }

\* getLabel: the first rdfs:label, else the local part of the URI
getLabel(term) ==
  IF Len(term.labels) > 0 THEN term.labels[1]
  ELSE SplitPop(SplitPop(term.value, "/"), "#")

\* the three set calls of extractClasses on the new object of a class; the
\* object is not among the client's, so no subscriber of the model reacts
classObjectOf(term) ==
  [ id |-> term.value,
    properties |-> MapSet(MapSet(MapSet(NoProperties,
                     "label", getLabel(term)), "uri", term.value),
                     "parents", term.parents) ]

\* extractClasses from the i-th class term on: the class map and the events
RECURSIVE extractClassesFrom(_, _, _)
extractClassesFrom(terms, i, acc) ==
  IF i > Len(terms)
  THEN [ acc EXCEPT !.published =
           Append(@, UVEEvent("rdf:classes:extracted",
                              [ count |-> Len(acc.classMap) ])) ]
  ELSE LET term == terms[i]
           obj  == classObjectOf(term)
           rest == SelectSeq(acc.classMap, LAMBDA o : o.id # obj.id)
           at   == IF \E j \in DOMAIN acc.classMap :
                        acc.classMap[j].id = obj.id
                   THEN [ j \in DOMAIN acc.classMap |->
                            IF acc.classMap[j].id = obj.id THEN obj
                            ELSE acc.classMap[j] ]
                   ELSE Append(acc.classMap, obj)
       IN  extractClassesFrom(terms, i + 1,
             [ classMap |-> at,
               published |-> acc.published \o
                 << PropertyChange(obj.id, "label", Null, getLabel(term)),
                    PropertyChange(obj.id, "uri", Null, term.value),
                    PropertyChange(obj.id, "parents", Null,
                                   term.parents) >> ])

\* extractClasses: this.classMap.clear(), then the class terms in order
extractClasses(ds) ==
  extractClassesFrom(ds.terms, 1, [ classMap |-> << >>, published |-> << >> ])

\* what rdf.io.dataset.fromURL(url) may settle to
Resolves(ds) == [ ok |-> TRUE, dataset |-> ds, message |-> "" ]
Rejects(message) == [ ok |-> FALSE, dataset |-> EmptyDataset,
                      message |-> message ]
Responses == { Resolves(ds) : ds \in Datasets } \cup
             { Rejects("Loading failed") }
Urls == { "data.ttl", "invalid.ttl" }

\* loadFromUrl(url), an async function whose whole body is a try with a
\* catch that publishes: setDataset and extractClasses run before 'rdf:loaded'
\* is published, and the promise resolves on both paths
loadFromUrl(mgr, url, response) ==
  IF response.ok
  THEN LET x == extractClasses(response.dataset)
       IN  [ dataset |-> response.dataset, classMap |-> x.classMap,
             published |-> Append(x.published,
                             UVEEvent("rdf:loaded",
                               [ source |-> url,
                                 size |-> response.dataset.size ])),
             settled |-> "resolved" ]
  ELSE [ dataset |-> mgr.dataset, classMap |-> mgr.classMap,
         published |-> << UVEEvent("rdf:error",
                            [ source |-> url, error |-> response.message ]) >>,
         settled |-> "resolved" ]

\* what the last method of the core was and did
CoreOp(op, target, key, value, ok, message, published, delivered, settled) ==
  [ op |-> op, target |-> target, key |-> key, value |-> value, ok |-> ok,
    message |-> message, published |-> published, delivered |-> delivered,
    settled |-> settled ]

\* two model objects and a manager as constructed: this.dataset =
\* rdf.dataset(), this.classMap = new Map()
InitModelObjects ==
  /\ properties = [ m \in ModelIds |-> NoProperties ]
  /\ dataset = EmptyDataset
  /\ classMap = << >>
  /\ coreOp = CoreOp("init", "", "", Null, TRUE, "", << >>, << >>, "")

-----------------------------------------------------------------------------
\* Storage: FSStorageService over the in-memory file system mockFs. A string
\* is the sequence of its code points, a Uint8Array the sequence of its
\* bytes, and the Map holds strings only

\* a continuation byte of UTF-8
IsContinuation(b) == b \in 128..191

\* TextDecoder.decode from the i-th byte on: one- to three-byte sequences
\* yield their code point, any byte that starts no well-formed sequence
\* yields U+FFFD
RECURSIVE decodeFrom(_, _)
decodeFrom(bytes, i) ==
  IF i > Len(bytes) THEN << >>
  ELSE LET b == bytes[i]
       IN  IF b < 128 THEN << b >> \o decodeFrom(bytes, i + 1)
           ELSE IF /\ b \in 194..223
                   /\ i + 1 <= Len(bytes)
                   /\ IsContinuation(bytes[i + 1])
           THEN << (b - 192) * 64 + (bytes[i + 1] - 128) >>
                  \o decodeFrom(bytes, i + 2)
           ELSE IF /\ b \in 224..239
                   /\ i + 2 <= Len(bytes)
                   /\ IsContinuation(bytes[i + 1])
                   /\ IsContinuation(bytes[i + 2])
           THEN << (b - 224) * 4096 + (bytes[i + 1] - 128) * 64
                     + (bytes[i + 2] - 128) >>
                  \o decodeFrom(bytes, i + 3)
           ELSE << 65533 >> \o decodeFrom(bytes, i + 1)

\* new TextDecoder().decode(data): UTF-8, a leading byte order mark dropped
decode(bytes) ==
  LET s == decodeFrom(bytes, 1)
  IN  IF Len(s) > 0 /\ s[1] = 65279 THEN SubSeq(s, 2, Len(s)) ELSE s

\* the UTF-8 bytes of one code point below 65536
encodePoint(cp) ==
  IF cp < 128 THEN << cp >>
  ELSE IF cp < 2048 THEN << 192 + (cp \div 64), 128 + (cp % 64) >>
  ELSE << 224 + (cp \div 4096), 128 + ((cp \div 64) % 64), 128 + (cp % 64) >>

\* new TextEncoder().encode(content)
RECURSIVE encode(_)
encode(s) ==
  IF s = << >> THEN << >> ELSE encodePoint(s[1]) \o encode(SubSeq(s, 2, Len(s)))

\* JSON.stringify of an object { k: text } whose text needs no escape:
\* the code points of {"k":"text"}
JSONstringify(text) == << 123, 34, 107, 34, 58, 34 >> \o text \o << 34, 125 >>

\* JSON.parse of such a text, back to the text of k
JSONparse(s) == SubSeq(s, 7, Len(s) - 2)

\* the data a client writes: strings, byte arrays and objects
String(s) == [ kind |-> "string", value |-> s ]
Bytes(b) == [ kind |-> "bytes", value |-> b ]
Object(text) == [ kind |-> "object", value |-> text ]
NoData == [ kind |-> "none", value |-> << >> ]

Data == { String(<< 65 >>), String(<< 233 >>), String(<< 65, 233 >>),
          Bytes(<< 65 >>), Bytes(<< 1, 2 >>), Bytes(<< 195, 169 >>),
          Bytes(<< 255 >>), Bytes(<< 65, 195 >>),
          Object(<< 65 >>) }

\* the ids of the resources; one lies in a directory
Ids == { << "a" >>, << "b" >>, << "d", "/", "a" >> }

\* constructor: the base path gets its trailing slash
BasePath == << "t", "/" >>

\* _getPath(id)
_getPath(id) == BasePath \o id

\* Map.has and Map.delete on a Map kept as the sequence of its entries
MapHas(m, key) == \E i \in DOMAIN m : m[i].key = key
MapDelete(m, key) == SelectSeq(m, LAMBDA e : e.key # key)

\* mockFs.writeFile(path, data): a Uint8Array is decoded to a string first
writeFile(files, path, data) ==
  MapSet(files, path,
         IF data.kind = "bytes" THEN decode(data.value) ELSE data.value)

\* mockFs.readFile(path, options): the string when an encoding is given,
\* its encoding as a Uint8Array otherwise; ENOENT for a path without entry
readFile(files, path, encoding) ==
  IF ~MapHas(files, path)
  THEN [ ok |-> FALSE, error |-> "ENOENT", result |-> NoData ]
  ELSE [ ok |-> TRUE, error |-> "",
         result |-> IF encoding THEN String(get(files, path))
                    ELSE Bytes(encode(get(files, path))) ]

\* mockFs.unlink(path): ENOENT for a path without entry
unlink(files, path) ==
  IF ~MapHas(files, path)
  THEN [ ok |-> FALSE, error |-> "ENOENT", files |-> files ]
  ELSE [ ok |-> TRUE, error |-> "", files |-> MapDelete(files, path) ]

\* FSStorageService.write(id, data): mkdir for an id in a directory creates
\* nothing in mockFs; an object that is no Uint8Array is stringified
write(files, id, data) ==
  writeFile(files, _getPath(id),
            IF data.kind = "object" THEN String(JSONstringify(data.value))
            ELSE data)

\* FSStorageService.read(id, options)
read(files, id, encoding) == readFile(files, _getPath(id), encoding)

\* FSStorageService.delete(id)
delete(files, id) == unlink(files, _getPath(id))

\* what the last storage method was and did
FsOp(op, id, encoding, ok, error, result) ==
  [ op |-> op, id |-> id, encoding |-> encoding, ok |-> ok, error |-> error,
    result |-> result ]

\* mockFs.reset() and a new FSStorageService
InitStorage ==
  /\ fileStorage = << >>
  /\ fsOp = FsOp("init", << >>, FALSE, TRUE, "", NoData)
  /\ written = [ id \in Ids |-> NoData ]

-----------------------------------------------------------------------------
\* StorageManager: named storage services, one of them the default, and the
\* fs API that goes to the default

\* no default: this.defaultService = null; the names of services are not
\* empty, so that the tests !this.defaultService and name || this.defaultService
\* tell a name from null
NoService == ""

\* the names services are registered under
ServiceNames == { "default", "sparql", "backup" }

\* the services: the FSStorageService over mockFs, the test's spy whose read
\* resolves to 'test data', and a service whose every call rejects
Services == { "fsService", "mockSparqlService", "failingService" }

\* registerService(name, service): the first name registered while there is
\* no default becomes the default
registerService(mgr, name, service) ==
  LET services == MapSet(mgr.services, name, service)
  IN  [ services |-> services,
        default |-> IF mgr.default = NoService THEN name ELSE mgr.default ]

\* variant: setDefaultService without the test of the name
setDefaultService_unchecked(mgr, name) ==
  [ services |-> mgr.services, default |-> name, threw |-> FALSE ]

\* setDefaultService(name): throws for a name that is not registered
setDefaultService(mgr, name) ==
  IF ~MapHas(mgr.services, name)
  THEN [ services |-> mgr.services, default |-> mgr.default, threw |-> TRUE ]
  ELSE [ services |-> mgr.services, default |-> name, threw |-> FALSE ]

\* getService() without a name: the service under the default name, or the
\* error 'Storage service not found'
getService(mgr) ==
  IF ~MapHas(mgr.services, mgr.default)
  THEN [ threw |-> TRUE, service |-> "" ]
  ELSE [ threw |-> FALSE, service |-> get(mgr.services, mgr.default) ]

\* service.read(path) of each service, on the files of mockFs
serviceReads(service, files, path) ==
  IF service = "fsService" THEN read(files, path, FALSE).ok
  ELSE service = "mockSparqlService"

\* exists(path): true when the default service reads the path, false for
\* any error, that of getService included
exists(mgr, files, path) ==
  LET s == getService(mgr)
  IN  IF s.threw THEN FALSE ELSE serviceReads(s.service, files, path)

\* what the last method of the manager was and did
SmOp(op, name, path, threw, service, found) ==
  [ op |-> op, name |-> name, path |-> path, threw |-> threw,
    service |-> service, found |-> found ]

\* the manager before setupDefaultStorage, and as the tests reset it
InitManager ==
  /\ storageServices = << >>
  /\ defaultService = NoService
  /\ smOp = SmOp("init", "", << >>, FALSE, "", FALSE)

-----------------------------------------------------------------------------
(* Controls: the pointer.  A mesh is known by its userData (type, uri) and  *)
(* by the pass that created the handle it belongs to                        *)

Mesh(type, uri, id) == [ type |-> type, uri |-> uri, id |-> id ]

\* this.intersectedObject = null, this.selectedObject = null
NoObject == Mesh("", Null, 0)

\* the data of 'object-selected' and 'object-deselected'
Selection(name, object) ==
  [ name |-> name, type |-> object.type, uri |-> object.uri ]

\* variant: a click on a new object publishes its selection only
onObjectClick_keepsPrevious(ctl, isLocked) ==
  IF isLocked
  THEN [ selectedObject |-> ctl.selectedObject, published |-> << >> ]
  ELSE IF ctl.intersectedObject # NoObject
  THEN [ selectedObject |-> ctl.intersectedObject,
         published |-> << Selection("object-selected",
                                    ctl.intersectedObject) >> ]
  ELSE [ selectedObject |-> NoObject,
         published |-> IF ctl.selectedObject # NoObject
                       THEN << Selection("object-deselected",
                                         ctl.selectedObject) >>
                       ELSE << >> ]

\* onObjectClick: the selected object it leaves and the events it publishes
onObjectClick(ctl, isLocked) ==
  LET previous == IF ctl.selectedObject # NoObject
                  THEN << Selection("object-deselected", ctl.selectedObject) >>
                  ELSE << >>
  IN  IF isLocked
      THEN [ selectedObject |-> ctl.selectedObject, published |-> << >> ]
      ELSE IF ctl.intersectedObject # NoObject
      THEN [ selectedObject |-> ctl.intersectedObject,
             published |-> previous \o << Selection("object-selected",
                                                    ctl.intersectedObject) >> ]
      ELSE [ selectedObject |-> NoObject, published |-> previous ]

InitControls ==
  /\ intersectedObject = NoObject
  /\ selectedObject = NoObject

\* the components besides the view, as constructed; the view publishes on
\* the singleton of eventBus.js
InitCore ==
  /\ InitBusOf("eventBus.js")
  /\ InitModelObjects
  /\ InitStorage
  /\ InitManager
  /\ InitControls

InitView ==
  /\ store = EmptyStore
  /\ classes = << >>
  /\ relationships = << >>
  /\ interfaces = << >>
  /\ spheres = << >>
  /\ pipes = << >>
  /\ ports = << >>
  /\ navigationStack = << >>
  /\ currentClassUri = Null
  /\ camera = DefaultPose
  /\ passCount = 0
  /\ lastOp = Op("init", Null, TRUE, 0, NoScene)
  /\ events = << >>
  /\ hist = << >>
  /\ peak = 0

\* the view, with the other components as constructed
Init == InitView /\ InitCore

\* the deepest nesting of the current excursion, for a step that neither
\* enters nor leaves a class
PeakKept == peak' = IF Len(navigationStack) = 0 THEN 0 ELSE peak

\* RDFModel publishes 'rdf-model-changed' after the dataset became s:
\* ConceptModel.updateFromRDF rebuilds the graph and publishes
\* 'concept-model-changed', on which ThreeView runs updateFromModel
RdfModelChanged(s) ==
  /\ UNCHANGED coreVars
  /\ passCount < MaxPasses
  /\ LET g  == updateFromRDF(s)
         sc == IF g.completed
               THEN updateFromModelOutcome(CurrentScene, g, currentClassUri,
                                           passCount + 1).scene
               ELSE CurrentScene
     IN  /\ store' = s
         /\ classes' = g.classes
         /\ relationships' = g.relationships
         /\ interfaces' = g.interfaces
         /\ spheres' = sc.spheres
         /\ pipes' = sc.pipes
         /\ ports' = sc.ports
         /\ lastOp' = Op("rdfModelChanged", Null, g.completed,
                         IF g.completed THEN 1 ELSE 0, sc)
         /\ passCount' = IF g.completed THEN passCount + 1 ELSE passCount
         /\ events' = IF g.completed
                      THEN << Event("rdf-model-changed", Null),
                              Event("concept-model-changed", Null) >>
                      ELSE << Event("rdf-model-changed", Null) >>
  /\ PeakKept
  /\ UNCHANGED << navigationStack, currentClassUri, camera, hist >>

\* as RdfModelChanged(s1), with one more subscriber of
\* 'concept-model-changed', called after ThreeView's, that makes the dataset
\* s2 and publishes 'rdf-model-changed': publish calls its subscribers
\* synchronously, so updateFromRDF runs again inside the outer publication
ReentrantRdfModelChanged(s1, s2) ==
  /\ UNCHANGED coreVars
  /\ passCount + 2 <= MaxPasses
  /\ updateFromRDF(s1).completed
  /\ LET g1  == updateFromRDF(s1)
         sc1 == updateFromModelOutcome(CurrentScene, g1, currentClassUri,
                                       passCount + 1).scene
         g2  == updateFromRDF(s2)
         sc2 == IF g2.completed
                THEN updateFromModelOutcome(sc1, g2, currentClassUri,
                                            passCount + 2).scene
                ELSE sc1
     IN  /\ store' = s2
         /\ classes' = g2.classes
         /\ relationships' = g2.relationships
         /\ interfaces' = g2.interfaces
         /\ spheres' = sc2.spheres
         /\ pipes' = sc2.pipes
         /\ ports' = sc2.ports
         /\ lastOp' = [ Op("rdfModelChangedReentrant", Null, g2.completed,
                           IF g2.completed THEN 2 ELSE 1, sc2)
                        EXCEPT !.inFlight = 2 ]
         /\ passCount' = IF g2.completed THEN passCount + 2 ELSE passCount + 1
         /\ events' = << Event("rdf-model-changed", Null),
                         Event("concept-model-changed", Null),
                         Event("rdf-model-changed", Null) >>
                      \o (IF g2.completed
                          THEN << Event("concept-model-changed", Null) >>
                          ELSE << >>)
  /\ PeakKept
  /\ UNCHANGED << navigationStack, currentClassUri, camera, hist >>

\* ThreeView.updateFromModel called on its own
UpdateFromModel ==
  /\ UNCHANGED coreVars
  /\ passCount < MaxPasses
  /\ LET o  == updateFromModelOutcome(CurrentScene, CurrentGraph,
                                      currentClassUri, passCount + 1)
         sc == o.scene
     IN  /\ spheres' = sc.spheres
         /\ pipes' = sc.pipes
         /\ ports' = sc.ports
         /\ lastOp' = [ Op("updateFromModel", Null, TRUE, 1, sc)
                        EXCEPT !.escaped = o.threw ]
  /\ passCount' = passCount + 1
  /\ events' = << >>
  /\ PeakKept
  /\ UNCHANGED << store, classes, relationships, interfaces, navigationStack,
                  currentClassUri, camera, hist >>

\* variant: the frame is pushed without the scope being left
Frame_withoutScope(classUri, pose) ==
  [ classUri |-> Null, cameraPosition |-> pose.position,
    cameraRotation |-> pose.rotation ]

\* the frame enterClass pushes: the scope and the camera clones
Frame(classUri, pose) ==
  [ classUri |-> classUri, cameraPosition |-> pose.position,
    cameraRotation |-> pose.rotation ]

\* variant: the lookup result is not tested
enterClassAccepts_unchecked(cls, classUriString) == TRUE

\* enterClass goes on only when conceptModel.getClass finds the class
enterClassAccepts(cls, classUriString) == getClass(cls, classUriString) # Null

\* ThreeView.enterClass(classUriString)
EnterClass(classUriString) ==
  /\ UNCHANGED coreVars
  /\ IF ~enterClassAccepts(classes, classUriString)
     THEN /\ lastOp' = Op("enterClass", classUriString, FALSE, 0, NoScene)
          /\ events' = << >>
          /\ PeakKept
          /\ UNCHANGED << store, classes, relationships, interfaces, spheres,
                          pipes, ports, navigationStack, currentClassUri, camera,
                          passCount, hist >>
     ELSE /\ passCount < MaxPasses
          /\ Len(navigationStack) < MaxDepth
          /\ navigationStack' = Append(navigationStack,
                                       Frame(currentClassUri, camera))
          /\ currentClassUri' = classUriString
          /\ camera' = [ position |-> << 0, 0, 15 >>, rotation |-> << 0, 0, 0 >> ]
          /\ LET o  == updateFromModelOutcome(CurrentScene, CurrentGraph,
                                              classUriString, passCount + 1)
                 sc == o.scene
             IN  /\ spheres' = sc.spheres
                 /\ pipes' = sc.pipes
                 /\ ports' = sc.ports
                 /\ lastOp' = [ Op("enterClass", classUriString, TRUE, 1, sc)
                                EXCEPT !.escaped = o.threw ]
                 /\ events' = IF o.threw THEN << >>
                              ELSE << Event("class-entered",
                                            getClass(classes, classUriString)) >>
          /\ passCount' = passCount + 1
          /\ hist' = Append(hist, [ scope |-> currentClassUri, camera |-> camera,
                                    stack |-> navigationStack,
                                    entered |-> classUriString ])
          /\ peak' = IF Len(navigationStack) = 0 \/ peak < Len(navigationStack) + 1
                     THEN Len(navigationStack) + 1 ELSE peak
          /\ UNCHANGED << store, classes, relationships, interfaces >>

\* variant: the saved position and rotation are kept by reference, not
\* cloned, so that they alias the live camera and restoring changes nothing
exitClassNav_aliasedCamera(nav) ==
  IF Len(nav.stack) = 0
  THEN [ ok |-> FALSE, stack |-> nav.stack, scope |-> nav.scope,
         camera |-> nav.camera ]
  ELSE LET state == nav.stack[Len(nav.stack)]
       IN  [ ok |-> TRUE,
             stack |-> SubSeq(nav.stack, 1, Len(nav.stack) - 1),
             scope |-> state.classUri,
             camera |-> nav.camera ]

\* variant: the empty-stack branch falls back to the top-level framing
exitClassNav_resetsOnEmpty(nav) ==
  IF Len(nav.stack) = 0
  THEN [ ok |-> FALSE, stack |-> nav.stack, scope |-> Null,
         camera |-> [ position |-> << 0, 0, 15 >>, rotation |-> << 0, 0, 0 >> ] ]
  ELSE LET state == nav.stack[Len(nav.stack)]
       IN  [ ok |-> TRUE,
             stack |-> SubSeq(nav.stack, 1, Len(nav.stack) - 1),
             scope |-> state.classUri,
             camera |-> [ position |-> state.cameraPosition,
                          rotation |-> state.cameraRotation ] ]

\* the navigation part of exitClass on nav = [stack, scope, camera]:
\* whether a frame was popped, and the stack, scope and camera afterwards
exitClassNav(nav) ==
  IF Len(nav.stack) = 0
  THEN [ ok |-> FALSE, stack |-> nav.stack, scope |-> nav.scope,
         camera |-> nav.camera ]
  ELSE LET state == nav.stack[Len(nav.stack)]
       IN  [ ok |-> TRUE,
             stack |-> SubSeq(nav.stack, 1, Len(nav.stack) - 1),
             scope |-> state.classUri,
             camera |-> [ position |-> state.cameraPosition,
                          rotation |-> state.cameraRotation ] ]

\* ThreeView.exitClass()
ExitClass ==
  /\ UNCHANGED coreVars
  /\ LET r == exitClassNav([ stack |-> navigationStack, scope |-> currentClassUri,
                             camera |-> camera ])
         exitingClassEntity == getClass(classes, currentClassUri)
     IN  /\ navigationStack' = r.stack
         /\ currentClassUri' = r.scope
         /\ camera' = r.camera
         /\ IF ~r.ok
            THEN /\ lastOp' = Op("exitClass", Null, FALSE, 0, NoScene)
                 /\ events' = << >>
                 /\ PeakKept
                 /\ UNCHANGED << spheres, pipes, ports, passCount, hist >>
            ELSE /\ passCount < MaxPasses
                 /\ LET o  == updateFromModelOutcome(CurrentScene, CurrentGraph,
                                                     r.scope, passCount + 1)
                        sc == o.scene
                    IN  /\ spheres' = sc.spheres
                        /\ pipes' = sc.pipes
                        /\ ports' = sc.ports
                        /\ lastOp' = [ Op("exitClass", Null, TRUE, 1, sc)
                                       EXCEPT !.escaped = o.threw ]
                        /\ events' = IF o.threw THEN << >>
                                     ELSE << Event("class-exited",
                                                   exitingClassEntity) >>
                 /\ passCount' = passCount + 1
                 /\ hist' = SubSeq(hist, 1, Len(hist) - 1)
                 /\ peak' = peak
         /\ UNCHANGED << store, classes, relationships, interfaces >>

\* variant: the flag is written to every entity of the map
setSelected_everyEntry(m, uri, flag) ==
  [ i \in DOMAIN m |-> [ m[i] EXCEPT !.isSelected = flag ] ]

\* entity.isSelected = flag on the entity the lookup by uri returns
setSelected(m, uri, flag) ==
  [ i \in DOMAIN m |->
      IF m[i].uri = uri THEN [ m[i] EXCEPT !.isSelected = flag ] ELSE m[i] ]

\* the body shared by onObjectSelected (flag TRUE) and onObjectDeselected
\* (flag FALSE), called by the bus with data = { type, uri }
ObjectSelection(name, type, uri, flag) ==
  /\ UNCHANGED coreVars
  /\ classes' = IF type = "class" THEN setSelected(classes, uri, flag)
                ELSE classes
  /\ relationships' = IF type = "relationship"
                      THEN setSelected(relationships, uri, flag)
                      ELSE relationships
  /\ interfaces' = IF type = "interface"
                   THEN setSelected(interfaces, uri, flag)
                   ELSE interfaces
  /\ lastOp' = [ Op(name, uri, TRUE, 0, NoScene) EXCEPT
                   !.kind = type,
                   !.refreshed =
                     IF \/ type = "class" /\ Has(classes, uri)
                                          /\ Has(spheres, uri)
                        \/ type = "relationship" /\ Has(relationships, uri)
                                                 /\ Has(pipes, uri)
                        \/ type = "interface" /\ Has(interfaces, uri)
                                              /\ Has(ports, uri)
                     THEN { << type, uri >> } ELSE {} ]
  /\ events' = << Event(IF flag THEN "object-selected"
                        ELSE "object-deselected", uri) >>
  /\ PeakKept
  /\ UNCHANGED << store, spheres, pipes, ports, navigationStack,
                  currentClassUri, camera, passCount, hist >>

\* ThreeView.onObjectSelected(data)
OnObjectSelected(type, uri) ==
  ObjectSelection("objectSelected", type, uri, TRUE)

\* ThreeView.onObjectDeselected(data)
OnObjectDeselected(type, uri) ==
  ObjectSelection("objectDeselected", type, uri, FALSE)

\* the meshes of the scene that carry userData.type
SceneObjects(sc) ==
  { Mesh("class", sc.spheres[i].uri, sc.spheres[i].id) :
      i \in DOMAIN sc.spheres }
  \cup { Mesh("relationship", sc.pipes[i].uri, sc.pipes[i].id) :
           i \in DOMAIN sc.pipes }
  \cup { Mesh("interface", sc.ports[i].uri, sc.ports[i].id) :
           i \in DOMAIN sc.ports }

\* onObjectSelected / onObjectDeselected on the graph g, for one event
handleSelection(g, ev) ==
  LET flag == ev.name = "object-selected"
  IN  [ classes |-> IF ev.type = "class"
                    THEN setSelected(g.classes, ev.uri, flag) ELSE g.classes,
        relationships |-> IF ev.type = "relationship"
                          THEN setSelected(g.relationships, ev.uri, flag)
                          ELSE g.relationships,
        interfaces |-> IF ev.type = "interface"
                       THEN setSelected(g.interfaces, ev.uri, flag)
                       ELSE g.interfaces ]

\* the events of one click, delivered in the order of their publication
RECURSIVE handleSelections(_, _, _)
handleSelections(g, evs, i) ==
  IF i > Len(evs) THEN g
  ELSE handleSelections(handleSelection(g, evs[i]), evs, i + 1)

\* Controls.update with the pointer free: the raycast makes the first mesh
\* with a userData.type under the pointer the intersected object, or none
Update(object) ==
  /\ object \in SceneObjects(CurrentScene) \cup { NoObject }
  /\ intersectedObject' = object
  /\ lastOp' = [ Op("update", object.uri, TRUE, 0, NoScene)
                  EXCEPT !.kind = object.type ]
  /\ events' = (IF intersectedObject # NoObject
                THEN << Selection("object-hover", intersectedObject) >>
                ELSE << >>)
               \o (IF object # NoObject
                   THEN << Selection("object-hover", object) >> ELSE << >>)
  /\ PeakKept
  /\ UNCHANGED << store, classes, relationships, interfaces, spheres, pipes,
                  ports, navigationStack, currentClassUri, camera, passCount,
                  hist >>
  /\ UNCHANGED << selectedObject, busVars, modelVars, fsVars, smVars >>

\* a click on the document: Controls.onObjectClick, and ThreeView's
\* handlers called by the bus for each event it publishes
OnObjectClick(isLocked) ==
  LET r == onObjectClick([ intersectedObject |-> intersectedObject,
                           selectedObject |-> selectedObject ], isLocked)
      g == handleSelections(CurrentGraph, r.published, 1)
  IN  /\ selectedObject' = r.selectedObject
      /\ classes' = g.classes
      /\ relationships' = g.relationships
      /\ interfaces' = g.interfaces
      /\ lastOp' = [ Op("objectClick", intersectedObject.uri, ~isLocked, 0,
                        NoScene)
                      EXCEPT !.kind = intersectedObject.type ]
      /\ events' = r.published
      /\ PeakKept
      /\ UNCHANGED << store, spheres, pipes, ports, navigationStack,
                      currentClassUri, camera, passCount, hist >>
      /\ UNCHANGED << intersectedObject, busVars, modelVars, fsVars, smVars >>

\* Controls.update moves and turns the camera between commands
MoveCamera(pose) ==
  /\ UNCHANGED coreVars
  /\ pose # camera
  /\ camera' = pose
  /\ lastOp' = Op("moveCamera", Null, TRUE, 0, NoScene)
  /\ events' = << >>
  /\ PeakKept
  /\ UNCHANGED << store, classes, relationships, interfaces, spheres, pipes,
                  ports, navigationStack, currentClassUri, passCount, hist >>

Next ==
  \/ \E s \in Stores : RdfModelChanged(s)
  \/ UpdateFromModel
  \/ \E id \in EnterIds : EnterClass(id)
  \/ ExitClass
  \/ \E pose \in CameraPoses : MoveCamera(pose)

Spec == Init /\ [][Next]_vars

\* the extraction over datasets with instance data, with navigation
\* commands as the readers of the graph
ExtractStores ==
  Stores \cup { InstanceStore(n) : n \in 0..MaxInstances }
         \cup { DualStore, ThrowingStore, MalformedStore, DanglingStore,
                RepeatedStore }

NextExtract ==
  \/ \E s \in ExtractStores : RdfModelChanged(s)
  \/ \E id \in EnterIds : EnterClass(id)
  \/ ExitClass

SpecExtract == Init /\ [][NextExtract]_vars

\* one ClassEntity on its own: constructed with or without a radius, then
\* given subclasses and radii
RadiusValues == 0..MaxRadius
SubclassIds == { uB, uAB, uC, uX, uASl, uP }

InitRadius ==
  /\ InitCore
  /\ store = EmptyStore
  /\ \E r \in { << >> } \cup { << v >> : v \in RadiusValues } :
       classes = << [ ClassEntity(uA) EXCEPT !._radius = r ] >>
  /\ relationships = << >>
  /\ interfaces = << >>
  /\ spheres = << >>
  /\ pipes = << >>
  /\ ports = << >>
  /\ navigationStack = << >>
  /\ currentClassUri = Null
  /\ camera = DefaultPose
  /\ passCount = 0
  /\ lastOp = Op("init", Null, TRUE, 0, NoScene)
  /\ events = << >>
  /\ hist = << >>
  /\ peak = 0

\* entity.radius = value on the entity under uri
SetRadius(uri, value) ==
  /\ UNCHANGED coreVars
  /\ Has(classes, uri)
  /\ classes' = [ i \in DOMAIN classes |->
                    IF classes[i].uri = uri THEN setRadius(classes[i], value)
                    ELSE classes[i] ]
  /\ lastOp' = [ Op("setRadius", uri, TRUE, 0, NoScene)
                 EXCEPT !.value = value ]
  /\ events' = << >>
  /\ PeakKept
  /\ UNCHANGED << store, relationships, interfaces, spheres, pipes, ports,
                  navigationStack, currentClassUri, camera, passCount, hist >>

\* entity.addSubclass(subclassUri) on the entity under uri
AddSubclass(uri, subclassUri) ==
  /\ UNCHANGED coreVars
  /\ Has(classes, uri)
  /\ Len(Get(classes, uri).subclasses) < MaxSubclasses
  /\ classes' = [ i \in DOMAIN classes |->
                    IF classes[i].uri = uri
                    THEN addSubclass(classes[i], subclassUri)
                    ELSE classes[i] ]
  /\ lastOp' = Op("addSubclass", uri, TRUE, 0, NoScene)
  /\ events' = << >>
  /\ PeakKept
  /\ UNCHANGED << store, relationships, interfaces, spheres, pipes, ports,
                  navigationStack, currentClassUri, camera, passCount, hist >>

NextRadius ==
  \/ \E value \in RadiusValues : SetRadius(uA, value)
  \/ \E subclassUri \in SubclassIds : AddSubclass(uA, subclassUri)

SpecRadius == InitRadius /\ [][NextRadius]_vars

\* the objects a click can pick, and picks that match no entity
SelectTypes == { "class", "relationship", "interface" }
SelectIds == { uA, uP, uI, uX }
SelectStores == { HierarchyStore, DanglingStore, ThrowingStore }

\* extraction, navigation and selection
NextSelect ==
  \/ \E s \in SelectStores : RdfModelChanged(s)
  \/ \E id \in EnterIds : EnterClass(id)
  \/ ExitClass
  \/ \E type \in SelectTypes, uri \in SelectIds : OnObjectSelected(type, uri)
  \/ \E type \in SelectTypes, uri \in SelectIds :
       OnObjectDeselected(type, uri)

SpecSelect == Init /\ [][NextSelect]_vars

\* extraction and navigation, with the pointer as the only source of
\* selections
ControlsStores == { EmptyStore, HierarchyStore }
ControlsEnterIds == { uA, uX }

NextControls ==
  \/ \E s \in ControlsStores : RdfModelChanged(s)
  \/ \E id \in ControlsEnterIds : EnterClass(id)
  \/ ExitClass
  \/ \E object \in SceneObjects(CurrentScene) \cup { NoObject } :
       Update(object)
  \/ \E isLocked \in BOOLEAN : OnObjectClick(isLocked)

SpecControls == Init /\ [][NextControls]_vars

\* store changes, some of them published from inside a publication
NextReentrant ==
  \/ \E s \in ExtractStores : RdfModelChanged(s)
  \/ \E s1, s2 \in Stores \cup { ThrowingStore } :
       ReentrantRdfModelChanged(s1, s2)
  \/ \E id \in EnterIds : EnterClass(id)
  \/ ExitClass

SpecReentrant == Init /\ [][NextReentrant]_vars

-----------------------------------------------------------------------------
(* Properties of the navigation controller *)

\* C1: LIFO restoration.  Every successful exitClass puts the scope, the
\* camera position and rotation, and the navigation stack back to what they
\* were immediately before the enterClass it undoes; so n enters followed by
\* n exits end in the scope, camera and stack from before the first enter.
LifoRestoration ==
  [][ (lastOp'.op = "exitClass" /\ lastOp'.ok)
      => LET h == hist[Len(hist)]
         IN  /\ currentClassUri' = h.scope
             /\ camera' = h.camera
             /\ navigationStack' = h.stack ]_vars

\* a nesting of depth two or more has been unwound completely, back to a
\* camera that is not the one enterClass resets to
LifoRestorationWitness ==
  /\ lastOp.op = "exitClass"
  /\ lastOp.ok
  /\ Len(navigationStack) = 0
  /\ peak >= 2
  /\ camera # DefaultPose

\* C2: exitClass on an empty navigation stack changes neither the scope, the
\* camera, the stack nor any handle map, runs no synchronisation pass and
\* publishes no event.
ExitOnEmptyStackIsNoOp ==
  [][ (lastOp'.op = "exitClass" /\ Len(navigationStack) = 0)
      => /\ ~lastOp'.ok
         /\ lastOp'.passes = 0
         /\ events' = << >>
         /\ UNCHANGED << currentClassUri, camera, navigationStack, spheres,
                         pipes, ports, passCount >> ]_vars

\* exitClass was refused while handles exist and the camera has been moved
ExitOnEmptyStackWitness ==
  /\ lastOp.op = "exitClass"
  /\ ~lastOp.ok
  /\ Len(spheres) > 0
  /\ camera # DefaultPose

\* C3: enterClass with an id that is no key of the class map changes neither
\* the stack, the scope, the camera nor any handle map and publishes no
\* 'class-entered' event.
EnterUnknownIsRejected ==
  [][ (lastOp'.op = "enterClass" /\ ~Has(classes, lastOp'.arg))
      => /\ ~lastOp'.ok
         /\ lastOp'.passes = 0
         /\ events' = << >>
         /\ UNCHANGED << navigationStack, currentClassUri, camera, spheres,
                         pipes, ports, passCount >> ]_vars

\* enterClass was refused for an unknown id, inside a class, with handles
EnterUnknownWitness ==
  /\ lastOp.op = "enterClass"
  /\ ~lastOp.ok
  /\ ~Has(classes, lastOp.arg)
  /\ Len(classes) > 0
  /\ Len(navigationStack) > 0
  /\ Len(spheres) > 0

\* C4: enterClass is accepted only for an id that is known and has a sphere
\* in the current scope; for a known id without a sphere it changes neither
\* the stack, the scope nor the camera.
EnterOnlyVisibleClass ==
  [][ (lastOp'.op = "enterClass" /\ ~Has(spheres, lastOp'.arg))
      => /\ ~lastOp'.ok
         /\ UNCHANGED << navigationStack, currentClassUri, camera >> ]_vars

\* C5: the stack depth is the nesting depth (successful enters minus
\* successful exits), the scope is top level exactly when the stack is
\* empty, the bottom frame saved the top level, every higher frame saved the
\* class entered by the frame below it, and the current scope is the class
\* entered last.
StackMatchesNesting ==
  /\ Len(navigationStack) = Len(hist)
  /\ (currentClassUri = Null) <=> (Len(navigationStack) = 0)
  /\ Len(navigationStack) > 0 =>
       /\ navigationStack[1].classUri = Null
       /\ currentClassUri = hist[Len(hist)].entered
  /\ \A i \in 1..(Len(navigationStack) - 1) :
       navigationStack[i + 1].classUri = hist[i].entered

\* two classes are entered, one inside the other
StackMatchesNestingWitness ==
  /\ Len(navigationStack) = 2
  /\ navigationStack[2].classUri # Null
  /\ navigationStack[2].classUri # currentClassUri

-----------------------------------------------------------------------------
(* Properties of the scene synchroniser and of the extraction *)

\* C6: idempotence.  When updateFromModel runs right after a pass, with the
\* graph and the scope unchanged, it creates no handle, disposes no handle
\* and leaves every handle the same object.
SynchronizerIdempotent ==
  [][ (lastOp.passes = 1 /\ lastOp'.op = "updateFromModel")
      => /\ lastOp'.created = 0
         /\ lastOp'.disposed = 0
         /\ spheres' = spheres
         /\ pipes' = pipes
         /\ ports' = ports ]_vars

\* the classes the store makes direct subclasses of c, among the known ones
DirectSubclasses(c) ==
  IF Has(classes, c)
  THEN { x \in Keys(classes) : << x, c >> \in SeqToSet(store.subClassOf) }
  ELSE {}

\* C7: after a pass inside class c the spheres are exactly the direct
\* subclasses of c, one sphere each: no subclass of a subclass, not c itself
\* unless it is its own subclass, none at all when c has no subclass.
InsideScopeShowsDirectSubclasses ==
  (lastOp.passes = 1 /\ currentClassUri # Null)
  => /\ Keys(spheres) = DirectSubclasses(currentClassUri)
     /\ Len(spheres) = Cardinality(Keys(spheres))

\* inside A, whose subclass B has a subclass of its own and which has an
\* unknown subclass X: exactly B and AB are shown
InsideScopeWitness ==
  /\ lastOp.op = "enterClass"
  /\ lastOp.ok
  /\ currentClassUri = uA
  /\ store = HierarchyStore
  /\ Keys(spheres) = { uB, uAB }

\* C8: after a pass at top level the keys of the sphere map are the keys of
\* the class map, one sphere each.
TopLevelShowsAllClasses ==
  (lastOp.passes = 1 /\ currentClassUri = Null)
  => /\ Keys(spheres) = Keys(classes)
     /\ Len(spheres) = Len(classes)

\* a pass at top level over a graph of four classes
TopLevelWitness ==
  /\ lastOp.passes = 1
  /\ currentClassUri = Null
  /\ Len(classes) = 4
  /\ Len(spheres) = 4

\* C9 as stated: after a pass, a relationship has a pipe only if its source
\* and its target identifier are keys of the sphere map, and an interface
\* has a port only if its owner identifier is a key of the sphere map.
HandlesOnlyForVisibleEndpoints ==
  lastOp.passes = 1
  => /\ \A i \in DOMAIN pipes :
          /\ Has(relationships, pipes[i].uri)
          /\ Has(spheres, Get(relationships, pipes[i].uri).sourceClassUri)
          /\ Has(spheres, Get(relationships, pipes[i].uri).targetClassUri)
     /\ \A i \in DOMAIN ports :
          /\ Has(interfaces, ports[i].uri)
          /\ Has(spheres, Get(interfaces, ports[i].uri).classUri)

\* uri matches a visible class: exactly, or up to one trailing '/', or by
\* its local name occurring in the key of a visible class
MatchesVisible(uri) ==
  \/ uri \in Keys(spheres)
  \/ (IF EndsWith(uri, "/") THEN SliceOffLast(uri) ELSE uri \o << "/" >>)
       \in Keys(spheres)
  \/ \E k \in Keys(spheres) : Includes(k, SplitPop(SplitPop(uri, "/"), "#"))

\* C9 as amended: after a pass, a relationship has a pipe only if its source
\* and its target identifier each match a visible class (exactly, up to one
\* trailing separator, or by local-name substring), and exactly when the
\* scope is inside a class; the pipe joins two spheres of the sphere map; an
\* interface has a port only if its owner identifier is a key of the sphere
\* map, and the port sits on that sphere.
HandlesOnlyForMatchedEndpoints ==
  lastOp.passes = 1
  => /\ \A i \in DOMAIN pipes :
          /\ Has(relationships, pipes[i].uri)
          /\ LET rel == Get(relationships, pipes[i].uri)
             IN  /\ MatchesVisible(rel.sourceClassUri)
                 /\ MatchesVisible(rel.targetClassUri)
                 /\ currentClassUri # Null =>
                      /\ Has(spheres, rel.sourceClassUri)
                      /\ Has(spheres, rel.targetClassUri)
          /\ pipes[i].source \in SeqToSet(spheres)
          /\ pipes[i].target \in SeqToSet(spheres)
     /\ \A i \in DOMAIN ports :
          /\ Has(interfaces, ports[i].uri)
          /\ Has(spheres, Get(interfaces, ports[i].uri).classUri)
          /\ ports[i].parent = Get(spheres, Get(interfaces, ports[i].uri).classUri)

\* a pass that made a pipe for a relationship and skipped another one, and
\* made a port
MatchedEndpointsWitness ==
  /\ lastOp.passes = 1
  /\ Len(pipes) > 0
  /\ Len(pipes) < Len(relationships)
  /\ Len(ports) > 0

\* C10: for every relationship definition of the store, with d domains and
\* r ranges, the relationship map holds d * r entities of that definition
\* after the extraction.
OneEntityPerDomainRangePair ==
  \A i \in DOMAIN store.relDefs :
    Cardinality({ j \in DOMAIN relationships :
                    relationships[j].uri = store.relDefs[i].property })
      = Len(store.relDefs[i].domains) * Len(store.relDefs[i].ranges)


-----------------------------------------------------------------------------
(* Properties of the extraction over instance data and failing queries *)

\* C11: when the store holds one class with n instances and one property
\* whose domain and range are that class, the extraction yields n + 1
\* class entities and exactly one relationship entity
ExtractionCountsInstances ==
  \A n \in 0..MaxInstances :
    (store = InstanceStore(n) /\ lastOp.op = "rdfModelChanged")
      => (Len(classes) = n + 1 /\ Len(relationships) = 1)

\* the identifiers the class query and the instance queries of a pass over
\* store s have to return: the class nodes, and the resources typed by a
\* class of the map
QueriedIdentifiers(s, cls) ==
  SeqToSet(getClasses(s))
    \cup { s.instances[i][1] : i \in { j \in DOMAIN s.instances :
                                         Has(cls, s.instances[j][2]) } }

\* C12: after an extraction pass every identifier returned by the class
\* query or by an instance query is the key of exactly one entry of the
\* class map
EveryQueriedIdentifierIsOneKey ==
  lastOp.op = "rdfModelChanged"
    => \A id \in QueriedIdentifiers(store, classes) :
         Cardinality({ i \in DOMAIN classes : classes[i].uri = id }) = 1

\* C13: a store change either replaces the graph by the one a pass that
\* ran to its end has built, or leaves the graph readers see as it was
GraphReplacedAtomically ==
  [][ lastOp'.op = "rdfModelChanged"
        => (updateFromRDF(store').completed \/ CurrentGraph' = CurrentGraph)
    ]_vars

\* the subclass edges of store s between two well-formed, known classes
KnownSubclassEdges(s, cls) ==
  { i \in DOMAIN s.subClassOf :
      /\ s.subClassOf[i][1] # Null
      /\ Has(cls, s.subClassOf[i][1])
      /\ Has(cls, s.subClassOf[i][2]) }

\* C14: whichever resource or query of a pass raises, every well-formed
\* class node, subclass edge, relationship record and interface node of
\* the store is in the graph after the pass, and 'concept-model-changed'
\* has been published
ExtractionSkipsOnlyTheFailingResource ==
  lastOp.op = "rdfModelChanged"
    => /\ \A i \in DOMAIN store.classNodes :
            store.classNodes[i] # Null => Has(classes, store.classNodes[i])
       /\ \A i \in KnownSubclassEdges(store, classes) :
            \E t \in SeqToSet(Get(classes, store.subClassOf[i][2]).subclasses) :
              t.value = store.subClassOf[i][1]
       /\ ~getRelationshipsThrows(store)
            => \A i \in DOMAIN store.relDefs :
                 (/\ store.relDefs[i].property # Null
                  /\ Len(store.relDefs[i].domains) > 0
                  /\ Len(store.relDefs[i].ranges) > 0)
                   => Has(relationships, store.relDefs[i].property)
       /\ \A i \in DOMAIN store.ifaceDefs :
            (/\ store.ifaceDefs[i].uri # Null
             /\ Len(store.ifaceDefs[i].owners) = 1
             /\ Has(classes, store.ifaceDefs[i].owners[1]))
              => Has(interfaces, store.ifaceDefs[i].uri)
       /\ \E i \in DOMAIN events : events[i].name = "concept-model-changed"

\* C15: no handler ever has two extraction passes in flight at once: a
\* store change published while a pass runs starts no pass inside it
ExtractionsNeverNested == lastOp.inFlight <= 1

-----------------------------------------------------------------------------
(* Properties of the handlers: exceptions and selection *)

\* C16: no store change, enterClass, exitClass, selection or deselection
\* lets an exception escape, whatever the store holds (properties without
\* domain or range included), and a step that pushes or pops a frame
\* publishes its 'class-entered' or 'class-exited' event
NoExceptionEscapes ==
  [][ /\ ~lastOp'.escaped
      /\ Len(navigationStack') > Len(navigationStack)
           => events' = << Event("class-entered", currentClassUri') >>
      /\ Len(navigationStack') < Len(navigationStack)
           => (Len(events') = 1 /\ events'[1].name = "class-exited")
    ]_vars

\* a class was entered over a store that holds a property without a range
\* and one without a domain
NoExceptionEscapesWitness ==
  /\ store = DanglingStore
  /\ lastOp.op = "enterClass"
  /\ lastOp.ok
  /\ lastOp.passes = 1
  /\ Len(relationships) = 1

\* the entity map a selection of the given type looks its entity up in
MapOfType(type, c, r, i) ==
  IF type = "class" THEN c ELSE IF type = "relationship" THEN r ELSE i

\* entity map m2 is m1 but for the selected flag of the entity under uri
SameButFlagOf(m1, m2, uri) ==
  /\ DOMAIN m2 = DOMAIN m1
  /\ \A k \in DOMAIN m1 :
       IF m1[k].uri = uri
       THEN [ m2[k] EXCEPT !.isSelected = m1[k].isSelected ] = m1[k]
       ELSE m2[k] = m1[k]

ReselectionIsNoOp ==
  [][ LET type == lastOp'.kind
          uri  == lastOp'.arg
          flag == (lastOp'.op = "objectSelected")
          m1   == MapOfType(type, classes, relationships, interfaces)
      IN  (/\ lastOp'.op \in { "objectSelected", "objectDeselected" }
           /\ Has(m1, uri)
           /\ Get(m1, uri).isSelected = flag)
            => (/\ UNCHANGED << classes, relationships, interfaces >>
                /\ lastOp'.refreshed = {})
    ]_vars

-----------------------------------------------------------------------------
(* Properties of the entities: radius and layout *)

\* C19: without an explicit radius the getter returns 5 + 0.5 * |subclasses|
\* (10 + |subclasses| halves); with a radius set, it returns the value set,
\* whatever that value is
RadiusLaw ==
  /\ \A i \in DOMAIN classes :
       classes[i]._radius = << >>
         => radius(classes[i]) = 10 + Len(classes[i].subclasses)
  /\ lastOp.op = "setRadius"
       => radius(Get(classes, lastOp.arg)) = lastOp.value

\* the class has a sphere in the scene: it is in the scope shown
InScope(entity) == Has(spheres, entity.uri)

\* the position of class number i (from 0) of N classes
LayoutPoint(i, N) ==
  IF N = 1 THEN Origin
  ELSE [ radius |-> IF N * 5 > 30 THEN N * 5 ELSE 30, index |-> i,
         count |-> N ]

\* C20: after a pass over a fully extracted graph, the classes in scope,
\* N of them, lie where the layout of N classes puts them: the only one at
\* the origin, number i of several at angle i * (2 pi / N) on the circle of
\* radius max(30, 5 N), at top level and inside a class alike
LayoutFollowsScope ==
  (/\ lastOp.op \in { "rdfModelChanged", "enterClass", "exitClass" }
   /\ lastOp.passes = 1
   /\ ~getRelationshipsThrows(store))
    => LET visible == SelectSeq(classes, InScope)
       IN  \A j \in DOMAIN visible :
             SamePoint(visible[j].position, LayoutPoint(j - 1, Len(visible)))

-----------------------------------------------------------------------------
(* Properties of the passes: order of the calls, later passes, matching *)

\* C21: in a pass every dispose call comes before the first create call,
\* and the handles of the pass before are all disposed
DisposeBeforeCreate ==
  [][ lastOp'.passes = 1
        => /\ \A i, j \in DOMAIN lastOp'.calls :
                (lastOp'.calls[i] = "create" /\ lastOp'.calls[j] = "dispose")
                  => j < i
           /\ lastOp'.disposed = Len(spheres) + Len(pipes) + Len(ports)
    ]_vars

\* a pass disposed the handles of the pass before and made new ones
DisposeBeforeCreateWitness ==
  /\ lastOp.passes = 1
  /\ lastOp.disposed >= 2
  /\ lastOp.created >= 2

\* C22: a relationship or interface without a handle stays in the graph
\* (no command but a store change alters the key sets of the maps), and a
\* pass gives a pipe to every relationship whose two endpoint classes have
\* spheres and a port to every interface whose owner has one
SkippedOnlyForThePass ==
  [][ /\ lastOp'.op \notin { "rdfModelChanged", "rdfModelChangedReentrant" }
           => /\ Keys(relationships') = Keys(relationships)
              /\ Keys(interfaces') = Keys(interfaces)
      /\ lastOp'.passes = 1
           => /\ \A i \in DOMAIN relationships' :
                   (/\ Has(spheres', relationships'[i].sourceClassUri)
                    /\ Has(spheres', relationships'[i].targetClassUri))
                     => Has(pipes', relationships'[i].uri)
              /\ \A i \in DOMAIN interfaces' :
                   Has(spheres', interfaces'[i].classUri)
                     => Has(ports', interfaces'[i].uri)
    ]_vars

\* inside n/B neither n/p (n/B to n/AB) nor n/i (on n/B) had a handle; the
\* pass of the exit gave them theirs
SkippedOnlyForThePassWitness ==
  /\ store = HierarchyStore
  /\ events = << Event("class-exited", uB) >>
  /\ currentClassUri = Null
  /\ Has(pipes, uP)
  /\ Has(ports, uI)

\* the sphere under key chosen is the one the ordered strategies give for
\* the identifier id: the exact key; failing that, the key that differs by
\* one trailing separator; failing that, a key that holds the local name
ChosenInOrder(id, chosen) ==
  IF Has(spheres, id) THEN chosen = id
  ELSE IF Has(spheres, altUriOf(id)) THEN chosen = altUriOf(id)
  ELSE Includes(chosen, localNameOf(id))

\* every pipe joins the spheres the ordered strategies give for the two
\* endpoints of its relationship
EndpointsMatchedInOrder ==
  \A i \in DOMAIN pipes :
    /\ Has(relationships, pipes[i].uri)
    /\ ChosenInOrder(Get(relationships, pipes[i].uri).sourceClassUri,
                     pipes[i].source.uri)
    /\ ChosenInOrder(Get(relationships, pipes[i].uri).targetClassUri,
                     pipes[i].target.uri)

-----------------------------------------------------------------------------
(* Properties of the events of the view *)

\* C24: an accepted enterClass(c) publishes one 'class-entered' carrying c,
\* with the scope changed and the pass run; an exitClass that pops
\* publishes one 'class-exited' carrying the class that was the scope,
\* never an absent one; a rejected enterClass and an exitClass on the empty
\* stack publish nothing
ScopeEventsCarryTheClass ==
  [][ /\ (lastOp'.op = "enterClass" /\ lastOp'.ok)
           => /\ events' = << Event("class-entered", lastOp'.arg) >>
              /\ currentClassUri' = lastOp'.arg
              /\ lastOp'.passes = 1
      /\ (lastOp'.op = "exitClass" /\ lastOp'.ok)
           => /\ currentClassUri # Null
              /\ events' = << Event("class-exited", currentClassUri) >>
      /\ (lastOp'.op \in { "enterClass", "exitClass" } /\ ~lastOp'.ok)
           => events' = << >>
    ]_vars

\* C25: a handler that has run a pass has published 'scene-updated', as
\* the last of its events
EveryPassPublishesSceneUpdated ==
  lastOp.passes >= 1
    => /\ Len(events) >= 1
       /\ events[Len(events)].name = "scene-updated"

-----------------------------------------------------------------------------
\* A bus on its own: callers subscribe, call the functions subscribe gave
\* them, publish and clear

\* a sequence without its repetitions, first occurrences kept in order
RECURSIVE FirstOccurrences(_)
FirstOccurrences(s) ==
  IF s = << >> THEN << >>
  ELSE LET front == FirstOccurrences(SubSeq(s, 1, Len(s) - 1))
           last  == s[Len(s)]
       IN  IF \E i \in DOMAIN front : front[i] = last THEN front
           ELSE Append(front, last)

\* a sequence without one value
Without(s, v) == SelectSeq(s, LAMBDA x : x # v)

\* eventBus.subscribe(event, callback); the caller keeps the function
Subscribe(event, callback) ==
  /\ Len(subscribers[event].list) < MaxSubscribers
  /\ subscribers' = subscribe(busKind, subscribers, event, callback)
  /\ returned' = returned \cup { << event, callback >> }
  /\ busOp' = BusOp("subscribe", event, callback, << >>, FALSE)
  /\ registered' = [ registered EXCEPT ![event] =
                       FirstOccurrences(Append(@, callback)) ]
  /\ UNCHANGED << busKind, viewVars, ctlVars, modelVars, fsVars, smVars >>

\* a caller calls a function an earlier subscribe(event, callback) returned
Unsubscribe(event, callback) ==
  /\ << event, callback >> \in returned
  /\ LET r == unsubscribe(busKind, subscribers, event, callback)
     IN  /\ subscribers' = r.subs
         /\ busOp' = BusOp("unsubscribe", event, callback, << >>, r.threw)
  /\ registered' = [ registered EXCEPT ![event] = Without(@, callback) ]
  /\ UNCHANGED << busKind, returned, viewVars, ctlVars, modelVars, fsVars, smVars >>

\* eventBus.publish(event, data) / eventBus.publish(new UVEEvent(type, data))
Publish(event) ==
  /\ LET r == publish(subscribers, event)
     IN  busOp' = BusOp("publish", event, "", r.called, r.threw)
  /\ UNCHANGED << busKind, subscribers, returned, registered, viewVars, ctlVars, modelVars, fsVars, smVars >>

\* eventBus.clear(event): only eventBus.js has the method
ClearEvent(event) ==
  /\ busKind = "eventBus.js"
  /\ subscribers' = clearEvent(subscribers, event)
  /\ busOp' = BusOp("clear", event, "", << >>, FALSE)
  /\ registered' = [ registered EXCEPT ![event] = << >> ]
  /\ UNCHANGED << busKind, returned, viewVars, ctlVars, modelVars, fsVars, smVars >>

\* eventBus.clear()
ClearAll ==
  /\ busKind = "eventBus.js"
  /\ subscribers' = clearAll(subscribers)
  /\ busOp' = BusOp("clearAll", "", "", << >>, FALSE)
  /\ registered' = [ e \in EventNames |-> << >> ]
  /\ UNCHANGED << busKind, returned, viewVars, ctlVars, modelVars, fsVars, smVars >>

\* either bus, freshly constructed, beside an idle view
InitBus ==
  /\ InitView
  /\ InitModelObjects
  /\ InitStorage
  /\ InitManager
  /\ InitControls
  /\ \E kind \in BusKinds : InitBusOf(kind)

NextBus ==
  \/ \E e \in EventNames, cb \in Callbacks : Subscribe(e, cb)
  \/ \E e \in EventNames, cb \in Callbacks : Unsubscribe(e, cb)
  \/ \E e \in EventNames : Publish(e)
  \/ \E e \in EventNames : ClearEvent(e)
  \/ ClearAll

SpecBus == InitBus /\ [][NextBus]_vars

-----------------------------------------------------------------------------
\* Properties of the buses

\* the callbacks a publish of the event would call in this state
Called(subs, event) == publish(subs, event).called

\* the members of a sequence
Members(s) == { s[i] : i \in DOMAIN s }

\* C26: a publish calls the callbacks in force for its event name, each of
\* them, in the order they subscribed and no callback that is in force under
\* another event name only; no exception of a callback leaves publish, and
\* the callbacks after one that threw are called all the same
PublishCallsEverySubscriber ==
  busOp.op = "publish"
    => /\ FirstOccurrences(busOp.called) = registered[busOp.event]
       /\ \A e \in EventNames \ { busOp.event } :
            \A cb \in Members(registered[e]) \ Members(registered[busOp.event]) :
              cb \notin Members(busOp.called)
       /\ ~busOp.threw
       /\ \A i \in DOMAIN busOp.called :
            Throws(busOp.called[i])
              => \A cb \in Members(registered[busOp.event]) :
                   cb \in Members(busOp.called)

\* a publish that called badCallback first and another callback after it,
\* while the other event name had a callback of its own
PublishCallsEverySubscriberWitness ==
  /\ busOp.op = "publish"
  /\ Len(busOp.called) = 2
  /\ Throws(busOp.called[1])
  /\ ~Throws(busOp.called[2])
  /\ \E e \in EventNames \ { busOp.event } :
       \E cb \in Members(registered[e]) : cb \notin Members(busOp.called)

\* C27: once the function subscribe(event, callback) returned has been
\* called, a publish of the event does not call the callback; once
\* clear(event) has run, a publish of the event calls nobody and a publish
\* of another event name calls whom it called before; once clear() has run,
\* no publish calls anybody; and no later publish calls a callback that is
\* not in force again
RemovedSubscribersStayOut ==
  [][ /\ busOp'.op = "unsubscribe"
        => busOp'.callback \notin Members(Called(subscribers', busOp'.event))
      /\ busOp'.op = "clear"
        => /\ Called(subscribers', busOp'.event) = << >>
           /\ \A e \in EventNames \ { busOp'.event } :
                Called(subscribers', e) = Called(subscribers, e)
      /\ busOp'.op = "clearAll"
        => \A e \in EventNames : Called(subscribers', e) = << >>
      /\ busOp'.op = "publish"
        => Members(busOp'.called) \subseteq Members(registered[busOp'.event])
    ]_vars

\* a publish after a removal: a callback that had subscribed to the event is
\* not called, and another one still is
RemovedSubscribersStayOutWitness ==
  /\ busOp.op = "publish"
  /\ busOp.called # << >>
  /\ \E cb \in Callbacks :
       /\ << busOp.event, cb >> \in returned
       /\ cb \notin Members(busOp.called)

-----------------------------------------------------------------------------
\* The vanilla core on its own: a client subscribes to the changes of its
\* model objects and sets their properties, and loads complete

ChangeType == "model:property:change"

\* eventBus.subscribe('model:property:change', callback)
SubscribeToChanges(callback) ==
  /\ subscribers' = subscribe(busKind, subscribers, ChangeType, callback)
  /\ subscribers' # subscribers
  /\ coreOp' = CoreOp("subscribe", callback, "", Null, TRUE, "", << >>,
                      << >>, "")
  /\ UNCHANGED << busKind, returned, busOp, registered, properties, dataset,
                  classMap, fsVars, smVars, viewVars, ctlVars >>

\* modelObj.set(key, value), with all that the subscribers do during it
Set(modelId, key, value) ==
  /\ LET r == set([ properties |-> properties, published |-> << >>,
                    delivered |-> << >> ],
                  subscribers, modelId, key, value)
     IN  /\ properties' = r.properties
         /\ coreOp' = CoreOp("set", modelId, key, value, TRUE, "",
                             r.published, r.delivered, "")
  /\ UNCHANGED << dataset, classMap, busVars, fsVars, smVars, viewVars, ctlVars >>

\* modelManager.loadFromUrl(url), up to the settling of its promise
LoadFromUrl(url, response) ==
  /\ LET r == loadFromUrl([ dataset |-> dataset, classMap |-> classMap ],
                          url, response)
     IN  /\ dataset' = r.dataset
         /\ classMap' = r.classMap
         /\ coreOp' = CoreOp("loadFromUrl", url, "", Null, response.ok,
                             response.message, r.published, << >>, r.settled)
  /\ UNCHANGED << properties, busVars, fsVars, smVars, viewVars, ctlVars >>

\* a bus of the core with nobody subscribed, two model objects, a manager
InitVanilla ==
  /\ InitView
  /\ busKind = "core.js"
  /\ subscribers = [ e \in { ChangeType } |-> NoEntry ]
  /\ returned = {}
  /\ busOp = BusOp("init", "", "", << >>, FALSE)
  /\ registered = [ e \in EventNames |-> << >> ]
  /\ InitModelObjects
  /\ InitStorage
  /\ InitManager
  /\ InitControls

NextVanilla ==
  \/ \E cb \in ModelCallbacks : SubscribeToChanges(cb)
  \/ \E m \in ModelIds, k \in PropertyKeys, v \in PropertyValues : Set(m, k, v)
  \/ \E url \in Urls, response \in Responses : LoadFromUrl(url, response)

SpecVanilla == InitVanilla /\ [][NextVanilla]_vars

-----------------------------------------------------------------------------
\* Properties of the vanilla core

\* C28: a load that succeeds publishes 'rdf:loaded' before any other event;
\* a load that fails publishes 'rdf:error' with the message of the error
\* first, its promise resolves, and the dataset and the class map are what
\* they were
LoadPublishesLoadedFirst ==
  [][ coreOp'.op = "loadFromUrl"
        => /\ coreOp'.ok => coreOp'.published[1].type = "rdf:loaded"
           /\ ~coreOp'.ok
                => /\ coreOp'.published[1].type = "rdf:error"
                   /\ coreOp'.published[1].data.error = coreOp'.message
                   /\ coreOp'.settled = "resolved"
                   /\ dataset' = dataset
                   /\ classMap' = classMap
    ]_vars

\* the events the claim expects of a set: the change itself and, when the
\* reactor is subscribed and the change is the one it answers, the change of
\* targetProperty of model2 it makes
ExpectedChanges(props, subs, modelId, key, value) ==
  LET first   == PropertyChange(modelId, key, get(props[modelId], key), value)
      answers == /\ "reactor" \in Members(subs[ChangeType].list)
                 /\ Reacts("reactor", first)
  IN  IF answers
      THEN << first,
              PropertyChange("model2", "targetProperty",
                             get(props["model2"], "targetProperty"), value) >>
      ELSE << first >>

\* how often the callback was called with the event
TimesDelivered(delivered, callback, event) ==
  Cardinality({ i \in DOMAIN delivered :
                  delivered[i] = [ callback |-> callback, event |-> event ] })

\* C29: set(key, value) stores the value, and one 'model:property:change'
\* is published per call of set, that of a subscriber during a delivery
\* included, with the model id, the key, the value held before the call
\* (null for a key never set) and the new value; every subscriber is called
\* once with each of these events and with nothing else
SetPublishesEachChangeOnce ==
  [][ coreOp'.op = "set"
        => /\ get(properties'[coreOp'.target], coreOp'.key) = coreOp'.value
           /\ coreOp'.published =
                ExpectedChanges(properties, subscribers, coreOp'.target,
                                coreOp'.key, coreOp'.value)
           /\ \A cb \in Members(subscribers[ChangeType].list) :
                \A j \in DOMAIN coreOp'.published :
                  TimesDelivered(coreOp'.delivered, cb,
                                 coreOp'.published[j]) = 1
           /\ Len(coreOp'.delivered) =
                Len(subscribers[ChangeType].list) * Len(coreOp'.published)
    ]_vars

\* a set that the reactor answered while the counting callback, subscribed
\* after it, was still to be called, both sets overwriting a value
SetPublishesEachChangeOnceWitness ==
  /\ coreOp.op = "set"
  /\ Len(coreOp.published) = 2
  /\ subscribers[ChangeType].list = << "reactor", "callback" >>
  /\ coreOp.published[1].data.oldValue # Null
  /\ coreOp.published[2].data.oldValue # Null
  /\ coreOp.published[2].data.oldValue # coreOp.published[2].data.newValue

-----------------------------------------------------------------------------
\* The storage service on its own: clients write, read and delete by id

\* await storage.write(id, data)
Write(id, data) ==
  /\ fileStorage' = write(fileStorage, id, data)
  /\ fsOp' = FsOp("write", id, FALSE, TRUE, "", NoData)
  /\ written' = [ written EXCEPT ![id] = data ]
  /\ UNCHANGED << busVars, modelVars, smVars, viewVars, ctlVars >>

\* await storage.read(id, { encoding: 'utf8' }) / await storage.read(id)
Read(id, encoding) ==
  /\ LET r == read(fileStorage, id, encoding)
     IN  fsOp' = FsOp("read", id, encoding, r.ok, r.error, r.result)
  /\ UNCHANGED << fileStorage, written, busVars, modelVars, smVars, viewVars, ctlVars >>

\* await storage.delete(id)
Delete(id) ==
  /\ LET r == delete(fileStorage, id)
     IN  /\ fileStorage' = r.files
         /\ fsOp' = FsOp("delete", id, FALSE, r.ok, r.error, NoData)
  /\ written' = [ written EXCEPT ![id] = NoData ]
  /\ UNCHANGED << busVars, modelVars, smVars, viewVars, ctlVars >>

InitFs == Init

NextStorage ==
  \/ \E id \in Ids, data \in Data : Write(id, data)
  \/ \E id \in Ids, encoding \in BOOLEAN : Read(id, encoding)
  \/ \E id \in Ids : Delete(id)

SpecStorage == InitFs /\ [][NextStorage]_vars

-----------------------------------------------------------------------------
\* Properties of the storage service

\* a read gives back what was written: a string read with an encoding, a
\* byte array read without one, an object parsed from the text read
GivesBack(result, data) ==
  \/ data.kind = "string" /\ result = data
  \/ data.kind = "bytes" /\ result = data
  \/ data.kind = "object" /\ result.kind = "string"
       /\ JSONparse(result.value) = data.value

\* the read that matches the kind of the data: bytes are read without an
\* encoding, strings and objects with one
ReadsInKind(data, encoding) == encoding <=> data.kind # "bytes"

\* C30: a read of an id returns the data written last under it, whatever
\* was written under other ids; after a delete the id has no entry and a
\* read of it fails with ENOENT; a read or a delete of an id that has
\* nothing written fails with ENOENT and leaves the contents as they were
StorageRoundTrip ==
  [][ /\ fsOp'.op = "read" /\ written[fsOp'.id] # NoData
           /\ ReadsInKind(written[fsOp'.id], fsOp'.encoding)
        => fsOp'.ok /\ GivesBack(fsOp'.result, written[fsOp'.id])
      /\ fsOp'.op = "read" /\ written[fsOp'.id] = NoData
        => ~fsOp'.ok /\ fsOp'.error = "ENOENT" /\ fileStorage' = fileStorage
      /\ fsOp'.op = "delete"
        => /\ ~MapHas(fileStorage', _getPath(fsOp'.id))
           /\ ~read(fileStorage', fsOp'.id, TRUE).ok
           /\ read(fileStorage', fsOp'.id, TRUE).error = "ENOENT"
           /\ \A id \in Ids \ { fsOp'.id } :
                read(fileStorage', id, TRUE) = read(fileStorage, id, TRUE)
      /\ fsOp'.op = "delete" /\ written[fsOp'.id] = NoData
        => ~fsOp'.ok /\ fsOp'.error = "ENOENT" /\ fileStorage' = fileStorage
      /\ fsOp'.op = "write"
        => \A id \in Ids \ { fsOp'.id } :
             read(fileStorage', id, TRUE) = read(fileStorage, id, TRUE)
    ]_vars

-----------------------------------------------------------------------------
\* The storage manager on its own: services are registered, the default is
\* set, and the fs API is called

Manager == [ services |-> storageServices, default |-> defaultService ]

\* the methods that hand their call to the default service
RoutedMethods == { "readFile", "writeFile", "delete", "list", "query" }

\* storageManager.registerService(name, service)
RegisterService(name, service) ==
  /\ LET r == registerService(Manager, name, service)
     IN  /\ storageServices' = r.services
         /\ defaultService' = r.default
  /\ smOp' = SmOp("registerService", name, << >>, FALSE, "", FALSE)
  /\ UNCHANGED << busVars, modelVars, fsVars, viewVars, ctlVars >>

\* storageManager.setDefaultService(name)
SetDefaultService(name) ==
  /\ LET r == setDefaultService(Manager, name)
     IN  /\ defaultService' = r.default
         /\ smOp' = SmOp("setDefaultService", name, << >>, r.threw, "", FALSE)
  /\ UNCHANGED << storageServices, busVars, modelVars, fsVars, viewVars, ctlVars >>

\* readFile / delete / list / query: getService(), then the method of the
\* service it returned; what the service then does to its own store is the
\* service's
Call(method, path) ==
  /\ method \in RoutedMethods \ { "writeFile" }
  /\ LET s == getService(Manager)
     IN  smOp' = SmOp(method, "", path, s.threw, s.service, FALSE)
  /\ UNCHANGED << storageServices, defaultService, busVars, modelVars,
                  fsVars, viewVars, ctlVars >>

\* writeFile(path, data): the write of the FSStorageService reaches mockFs
WriteFile(path, data) ==
  /\ LET s == getService(Manager)
     IN  /\ smOp' = SmOp("writeFile", "", path, s.threw, s.service, FALSE)
         /\ IF ~s.threw /\ s.service = "fsService"
            THEN /\ fileStorage' = write(fileStorage, path, data)
                 /\ written' = [ written EXCEPT ![path] = data ]
            ELSE UNCHANGED << fileStorage, written >>
  /\ UNCHANGED << storageServices, defaultService, fsOp, busVars, modelVars,
                  viewVars, ctlVars >>

\* storageManager.exists(path)
Exists(path) ==
  /\ smOp' = SmOp("exists", "", path, FALSE,
                  getService(Manager).service,
                  exists(Manager, fileStorage, path))
  /\ UNCHANGED << storageServices, defaultService, busVars, modelVars,
                  fsVars, viewVars, ctlVars >>

\* the paths the fs API is called with
ManagerPaths == { << "a" >>, << "b" >> }

NextManager ==
  \/ \E name \in ServiceNames, service \in Services :
       RegisterService(name, service)
  \/ \E name \in ServiceNames : SetDefaultService(name)
  \/ \E method \in RoutedMethods, path \in ManagerPaths : Call(method, path)
  \/ \E path \in ManagerPaths : WriteFile(path, String(<< 65 >>))
  \/ \E path \in ManagerPaths : Exists(path)

SpecManager == Init /\ [][NextManager]_vars

-----------------------------------------------------------------------------
\* Properties of the storage manager

\* whether the path can be read through the default: there is a default, it
\* is not the service that rejects, and if it is the file service something
\* was written under the path
CanBeRead(services, default, path) ==
  /\ MapHas(services, default)
  /\ get(services, default) # "failingService"
  /\ get(services, default) = "fsService" => written[path] # NoData

\* C31: every readFile, writeFile, delete, list and query goes to the
\* service under the default name; a service registered while no default is
\* set becomes the default; setDefaultService with a name never registered
\* throws and the default stays; exists answers false, and does not throw,
\* for a path that cannot be read
ManagerRoutesToDefault ==
  [][ /\ smOp'.op \in RoutedMethods /\ MapHas(storageServices, defaultService)
        => /\ ~smOp'.threw
           /\ smOp'.service = get(storageServices, defaultService)
      /\ smOp'.op = "registerService"
        => /\ defaultService = NoService => defaultService' = smOp'.name
           /\ defaultService # NoService => defaultService' = defaultService
           /\ get(storageServices', smOp'.name) \in Services
      /\ smOp'.op = "setDefaultService"
        => IF MapHas(storageServices, smOp'.name)
           THEN ~smOp'.threw /\ defaultService' = smOp'.name
           ELSE smOp'.threw /\ defaultService' = defaultService
      /\ smOp'.op = "exists"
        => /\ ~smOp'.threw
           /\ ~CanBeRead(storageServices, defaultService, smOp'.path)
                => ~smOp'.found
    ]_vars

\* a call routed to a second service that was made the default after the
\* first registered one had become it
ManagerRoutesToDefaultWitness ==
  /\ smOp.op \in RoutedMethods
  /\ Len(storageServices) >= 2
  /\ defaultService # storageServices[1].key
  /\ smOp.service = get(storageServices, defaultService)
  /\ smOp.service # storageServices[1].value

-----------------------------------------------------------------------------
(* The subclass lists after an extraction pass                              *)

SubclassValues(entity) ==
  { entity.subclasses[j].value : j \in DOMAIN entity.subclasses }

\* every subclass in a list is a key of the class map
SubclassesAreKnown ==
  lastOp.op = "rdfModelChanged"
    => \A i \in DOMAIN classes : SubclassValues(classes[i]) \subseteq Keys(classes)

\* C32: after every extraction pass every identifier in a subclass list is
\* a key of the class map, and no identifier occurs twice in one list, even
\* when the store returns the same subclass several times
SubclassListsAreSets ==
  lastOp.op = "rdfModelChanged"
    => \A i \in DOMAIN classes :
         /\ SubclassValues(classes[i]) \subseteq Keys(classes)
         /\ \A j, k \in DOMAIN classes[i].subclasses :
              classes[i].subclasses[j].value = classes[i].subclasses[k].value
                => j = k

\* the subclass returned twice through one term object is listed once
SharedTermListedOnce ==
  (lastOp.op = "rdfModelChanged" /\ store = RepeatedStore)
    => Cardinality({ j \in DOMAIN Get(classes, uA).subclasses :
                       Get(classes, uA).subclasses[j].value = uAB }) = 1
-----------------------------------------------------------------------------
(* One store change, one extraction pass, one synchronisation pass          *)

TimesPublished(evs, name) ==
  Cardinality({ i \in DOMAIN evs : evs[i].name = name })

\* the handles a pass leaves show the graph it read: at top level one sphere
\* for each class of the graph, inside a class spheres of its classes only
ShowsGraph(sc, g, scopeUri) ==
  /\ scopeUri = Null => Keys(sc.spheres) = Keys(g.classes)
  /\ Keys(sc.spheres) \subseteq Keys(g.classes)
  /\ Keys(sc.pipes) \subseteq Keys(g.relationships)
  /\ Keys(sc.ports) \subseteq Keys(g.interfaces)

\* the part that holds whatever the store: at most one extraction and one
\* publication for a notification, and a synchronisation pass only on the
\* publication of a pass that ran to its end, showing the graph of that pass
StoreChangeRunsAtMostOnePass ==
  [][ lastOp'.op = "rdfModelChanged"
        => /\ lastOp'.inFlight = 1
           /\ TimesPublished(events', "concept-model-changed")
                = (IF lastOp'.ok THEN 1 ELSE 0)
           /\ lastOp'.passes = (IF lastOp'.ok THEN 1 ELSE 0)
           /\ lastOp'.ok
                => /\ firstThrowingRelationship(CurrentGraph',
                                                 currentClassUri') = 0
                   /\ ShowsGraph(CurrentScene', CurrentGraph',
                                  currentClassUri')
                   /\ \A i \in DOMAIN spheres' : spheres'[i].id = passCount'
    ]_vars

\* C33: each store-change notification runs exactly one full extraction
\* pass, which publishes 'concept-model-changed' exactly once, after the
\* three maps are built and the positions assigned; the synchronisation
\* pass triggered by the event runs to its end within the notification and
\* shows the graph of that same pass
StoreChangeRunsOnePass ==
  [][ lastOp'.op = "rdfModelChanged"
        => /\ lastOp'.inFlight = 1
           /\ lastOp'.ok
           /\ CurrentGraph' = extractGraph(store')
           /\ TimesPublished(events', "concept-model-changed") = 1
           /\ lastOp'.passes = 1
           /\ firstThrowingRelationship(CurrentGraph', currentClassUri') = 0
           /\ ShowsGraph(CurrentScene', CurrentGraph', currentClassUri')
           /\ \A i \in DOMAIN spheres' : spheres'[i].id = passCount'
    ]_vars
-----------------------------------------------------------------------------
(* The interfaces after an extraction pass                                  *)

TimesListed(list, uri) ==
  Cardinality({ j \in DOMAIN list : list[j] = uri })

\* the interface nodes of the store without an owner class of the class map
Unowned(s, cls) ==
  { s.ifaceDefs[i].uri : i \in { k \in DOMAIN s.ifaceDefs :
       /\ s.ifaceDefs[k].uri # Null
       /\ \/ Len(s.ifaceDefs[k].owners) = 0
          \/ /\ Len(s.ifaceDefs[k].owners) = 1
             /\ ~Has(cls, s.ifaceDefs[k].owners[1]) } }

\* C34: after every extraction pass every InterfaceEntity of the interface
\* map has an owner class that is a key of the class map, the interface list
\* of that class holds the interface exactly once, and an interface without
\* an owner or with an unknown owner is not in the map
InterfacesHaveKnownOwners ==
  lastOp.op = "rdfModelChanged"
    => /\ \A i \in DOMAIN interfaces :
            /\ interfaces[i].classUri # Null
            /\ Has(classes, interfaces[i].classUri)
            /\ TimesListed(Get(classes, interfaces[i].classUri).interfaces,
                           interfaces[i].uri) = 1
       /\ Keys(interfaces) \cap Unowned(store, classes) = {}

\* the pass over the store that names i twice, j without an owner and q
\* with an unknown owner: i alone is in the map, once in the list of n/A
InterfacesHaveKnownOwnersWitness ==
  /\ lastOp.op = "rdfModelChanged"
  /\ store = RepeatedStore
  /\ Keys(interfaces) = { uI }
  /\ Get(classes, uA).interfaces = << uI >>
  /\ Unowned(store, classes) = { uJ, uQ }
-----------------------------------------------------------------------------
(* The scope and the class map                                              *)

IsScopeOf(cls, scopeUri) == scopeUri = Null \/ Has(cls, scopeUri)

\* what enterClass and exitClass keep on their own: with the class map
\* unchanged, a scope entered or restored is TopLevel or a key of the map
NavigationKeepsScopeKnown ==
  [][ (/\ lastOp'.op \in { "enterClass", "exitClass" }
       /\ IsScopeOf(classes, currentClassUri)
       /\ \A i \in DOMAIN navigationStack :
            IsScopeOf(classes, navigationStack[i].classUri))
        => /\ IsScopeOf(classes', currentClassUri')
           /\ \A i \in DOMAIN navigationStack' :
                IsScopeOf(classes', navigationStack'[i].classUri)
    ]_vars

\* C35: after any sequence of store changes, enterClass and exitClass calls
\* the current scope is TopLevel or a key of the current class map, and so
\* is the scope saved in every frame of the navigation stack
ScopeIsAKnownClass ==
  /\ IsScopeOf(classes, currentClassUri)
  /\ \A i \in DOMAIN navigationStack :
       IsScopeOf(classes, navigationStack[i].classUri)
-----------------------------------------------------------------------------
(* The handles and the graph                                                *)

\* one handle for each key, every key a key of the entity map of its kind,
\* and the spheres that pipes and ports hold are spheres of the sphere map
HandlesMatch(sc, g) ==
  /\ Keys(sc.spheres) \subseteq Keys(g.classes)
  /\ Keys(sc.pipes) \subseteq Keys(g.relationships)
  /\ Keys(sc.ports) \subseteq Keys(g.interfaces)
  /\ \A i \in DOMAIN sc.pipes :
       /\ sc.pipes[i].source \in SeqToSet(sc.spheres)
       /\ sc.pipes[i].target \in SeqToSet(sc.spheres)
  /\ \A i \in DOMAIN sc.ports : sc.ports[i].parent \in SeqToSet(sc.spheres)
  /\ Len(sc.spheres) = Cardinality(Keys(sc.spheres))
  /\ Len(sc.pipes) = Cardinality(Keys(sc.pipes))
  /\ Len(sc.ports) = Cardinality(Keys(sc.ports))

\* the state a pass leaves is consistent, whichever handler ran the pass
PassLeavesHandlesConsistent ==
  lastOp.passes > 0 => HandlesMatch(CurrentScene, CurrentGraph)

\* C36: in every state after a synchronisation pass the handles are
\* referentially consistent: keys of the entity maps, one handle for each
\* key, pipes and ports on spheres of the current sphere map, and handles
\* that hold the entity objects of the current graph (every step that
\* replaces the entities replaces the handles)
HandlesAreConsistent ==
  /\ [](passCount > 0 => HandlesMatch(CurrentScene, CurrentGraph))
  /\ [][ (passCount > 0 /\ lastOp'.op = "rdfModelChanged")
            => lastOp'.passes > 0 ]_vars
-----------------------------------------------------------------------------
(* The decision to render a relationship, in the two kinds of scope         *)

\* renderRelationship alone, as a top-level pass calls it: both ends are
\* looked up with findSphereByUri among the visible classes
TopLevelDecision(sph, rel) ==
  /\ findSphereByUri(sph, rel.sourceClassUri) # Null
  /\ findSphereByUri(sph, rel.targetClassUri) # Null

\* renderClassInternals: renderRelationship is called only for ends that
\* are keys of the sphere map
InsideClassDecision(sph, rel) ==
  /\ Has(sph, rel.sourceClassUri)
  /\ Has(sph, rel.targetClassUri)
  /\ TopLevelDecision(sph, rel)

\* what each kind of scope does, and that the two agree on relationships
\* whose ends are both keys of the sphere map
DecisionFollowsScopeKind ==
  (lastOp.passes > 0 /\ ~lastOp.escaped)
    => \A i \in DOMAIN relationships :
         /\ Has(pipes, relationships[i].uri)
              <=> IF currentClassUri = Null
                  THEN TopLevelDecision(spheres, relationships[i])
                  ELSE InsideClassDecision(spheres, relationships[i])
         /\ (/\ Has(spheres, relationships[i].sourceClassUri)
             /\ Has(spheres, relationships[i].targetClassUri))
              => Has(pipes, relationships[i].uri)

\* C37: whether a relationship gets a handle depends on the visible classes
\* alone: a pass inside a class decides as a top-level pass over the same
\* visible classes would, also for ends that match by trailing separator
\* or by substring only
DecisionIgnoresScopeKind ==
  (lastOp.passes > 0 /\ ~lastOp.escaped)
    => \A i \in DOMAIN relationships :
         Has(pipes, relationships[i].uri)
           <=> TopLevelDecision(spheres, relationships[i])
-----------------------------------------------------------------------------
(* Selection through the pointer                                            *)

Selected(g) ==
  { << "class", g.classes[i].uri >> :
      i \in { k \in DOMAIN g.classes : g.classes[k].isSelected } }
  \cup { << "relationship", g.relationships[i].uri >> :
           i \in { k \in DOMAIN g.relationships :
                     g.relationships[k].isSelected } }
  \cup { << "interface", g.interfaces[i].uri >> :
           i \in { k \in DOMAIN g.interfaces : g.interfaces[k].isSelected } }

\* C39: with the pointer as the only source of select and deselect
\* commands at most one entity of the graph is selected at any time, and a
\* click on an object while another is selected publishes the deselection
\* of the previous object before the selection of the new one
AtMostOneSelected ==
  /\ [](Cardinality(Selected(CurrentGraph)) <= 1)
  /\ [][ (/\ lastOp'.op = "objectClick"
           /\ lastOp'.ok
           /\ intersectedObject # NoObject
           /\ selectedObject # NoObject)
            => events' = << Selection("object-deselected", selectedObject),
                            Selection("object-selected", intersectedObject) >>
      ]_vars

\* a click on the pipe n/p while the sphere of n/A was selected: the pipe's
\* relationship is the one selected entity
AtMostOneSelectedWitness ==
  /\ lastOp.op = "objectClick"
  /\ events = << Selection("object-deselected", Mesh("class", uA, 1)),
                 Selection("object-selected", Mesh("relationship", uP, 1)) >>
  /\ Selected(CurrentGraph) = { << "relationship", uP >> }

\* whatever the store and whoever selected: no entity is selected in the
\* state an extraction leaves, also one left by an exception
ExtractionLeavesNothingSelected ==
  lastOp.op = "rdfModelChanged" => Selected(CurrentGraph) = {}

\* C38: the entities of an extraction pass are new, so right after a pass
\* no entity is selected, whatever was selected before; the deselection
\* then published for the object selected before the pass leaves every
\* flag false
FreshEntitiesAreUnselected ==
  [][ /\ lastOp'.op = "rdfModelChanged" => Selected(CurrentGraph') = {}
      /\ (/\ lastOp.op = "rdfModelChanged"
          /\ lastOp'.op = "objectClick"
          /\ lastOp'.ok
          /\ intersectedObject = NoObject
          /\ selectedObject # NoObject)
           => /\ events' = << Selection("object-deselected",
                                        selectedObject) >>
              /\ Selected(CurrentGraph') = {}
    ]_vars

\* the sphere of n/A made by the first pass was selected, a store change
\* ran the second pass, and a click on empty space has deselected n/A
FreshEntitiesAreUnselectedWitness ==
  /\ lastOp.op = "objectClick"
  /\ events = << Selection("object-deselected", Mesh("class", uA, 1)) >>
  /\ passCount = 2
  /\ navigationStack = << >>
  /\ Has(classes, uA)
  /\ Selected(CurrentGraph) = {}
-----------------------------------------------------------------------------
(* The unsubscribe functions of the singleton of eventBus.js                *)

Occurrences(list, callback) ==
  Cardinality({ i \in DOMAIN list : list[i] = callback })

\* what the function does in every state: the entries of other events and
\* the other callbacks of its event stay as they are, and when it does not
\* throw no occurrence of its callback is left
UnsubscribeRemovesEveryOccurrence ==
  [][ (busKind = "eventBus.js" /\ busOp'.op = "unsubscribe")
        => /\ \A e \in EventNames \ { busOp'.event } :
                subscribers'[e] = subscribers[e]
           /\ busOp'.threw <=> ~subscribers[busOp'.event].defined
           /\ busOp'.threw => subscribers' = subscribers
           /\ ~busOp'.threw
                => /\ subscribers'[busOp'.event].list
                        = Without(subscribers[busOp'.event].list,
                                  busOp'.callback)
                   /\ Occurrences(subscribers'[busOp'.event].list,
                                  busOp'.callback) = 0
    ]_vars

\* the function does not throw
UnsubscribeNeverThrows ==
  [][ (busKind = "eventBus.js" /\ busOp'.op = "unsubscribe")
        => ~busOp'.threw ]_vars

\* C40: an unsubscribe function returned by the singleton's subscribe is
\* safe in every state: it never throws, also after clear(event) or clear()
\* and when called again, and it removes the one subscription it was
\* returned for, leaving other subscriptions of the same callback to the
\* same event in place
UnsubscribeIsSafe ==
  [][ (busKind = "eventBus.js" /\ busOp'.op = "unsubscribe")
        => /\ ~busOp'.threw
           /\ \A e \in EventNames \ { busOp'.event } :
                subscribers'[e] = subscribers[e]
           /\ \A cb \in Callbacks \ { busOp'.callback } :
                Occurrences(subscribers'[busOp'.event].list, cb)
                  = Occurrences(subscribers[busOp'.event].list, cb)
           /\ Occurrences(subscribers'[busOp'.event].list, busOp'.callback)
                >= Occurrences(subscribers[busOp'.event].list,
                               busOp'.callback) - 1
    ]_vars
=============================================================================
